---- MODULE Spec2Model ----
(***************************************************************************)
(* A model of cacherator: the Cached wrapper (cached_function.py) and the  *)
(* JSONCache owner with its JSON document (cacherator.py).                 *)
(*                                                                         *)
(* Time is counted in ticks of the wall clock; DayTicks ticks make a day.  *)
(* Strings are sequences of one-character strings, so that prefixes and    *)
(* lengths are those of the program's strings.  Python dicts are functions *)
(* whose DOMAIN is the set of keys; their order is never observed.         *)
(***************************************************************************)
EXTENDS Integers, Sequences, FiniteSets, TLC

\* ------------------------------------------------------------------ bounds
MaxTime == 1
MaxCalls == 3
MinStrLen == 164
MaxStrLen == 172
MinIdLen == 178
MaxIdLen == 181

\* timedelta(days=ttl): the number of clock ticks of one day
DayTicks == 2

\* ------------------------------------------------------------ Python values
\* A Python value is <<type name, payload>>; the payload is a sequence.
PyNone == <<"NoneType", <<>>>>
PyInt(n) == <<"int", <<n>>>>
PyTuple(s) == <<"tuple", s>>
PyList(s) == <<"list", s>>
PyStrList(s) == <<"strlist", s>>
PyItem(n) == <<"Item", <<n>>>>
PyStr(s) == <<"str", s>>
\* a str too long to spell out: json.dumps writes n bytes for it, and gzip
\* packs the bytes of a document that holds it into gz bytes
PyBigStr(n, gz) == <<"bigstr", <<n, gz>>>>
\* a dict with str values; its payload is a function of its keys
PyDict(m) == <<"dict", m>>
\* an owner, as the first positional argument of a call
PyOwner(o) == <<"owner", <<o>>>>
PySet(s) == <<"set", s>>
\* l = [..]; l.append(l): a list that contains itself
PyCyclic == <<"cyclic", <<>>>>

\* json.dumps(x, cls=DateTimeEncoder) succeeds on these types
JsonableTypes ==
    {"NoneType", "int", "tuple", "list", "strlist", "str", "bigstr", "dict"}

is_jsonable(x) == x[1] \in JsonableTypes

\* is_jsonable catches TypeError and OverflowError only: the ValueError that
\* json.dumps raises on a circular reference leaves it
is_jsonable_raises(x) == x[1] = "cyclic"

\* json.dump of a value: a tuple and a list are both written as an array
ToJson(x) ==
    CASE x[1] = "NoneType" -> <<"null", <<>>>>
      [] x[1] = "int" -> <<"number", x[2]>>
      [] x[1] = "tuple" -> <<"array", x[2]>>
      [] x[1] = "list" -> <<"array", x[2]>>
      [] x[1] = "strlist" -> <<"strarray", x[2]>>
      [] x[1] = "str" -> <<"string", x[2]>>
      [] x[1] = "bigstr" -> <<"bigstring", x[2]>>
      [] x[1] = "dict" -> <<"object", x[2]>>

\* json.load of a value: an array is read as a list
FromJson(j) ==
    CASE j[1] = "null" -> PyNone
      [] j[1] = "number" -> PyInt(j[2][1])
      [] j[1] = "array" -> PyList(j[2])
      [] j[1] = "strarray" -> PyStrList(j[2])
      [] j[1] = "string" -> PyStr(j[2])
      [] j[1] = "bigstring" -> PyBigStr(j[2][1], j[2][2])
      [] j[1] = "object" -> PyDict(j[2])

\* DateTimeEncoder: a datetime is written in _DATETIME_FORMAT; the model
\* writes the tick count as two decimal digits
FormatDate(t) == <<"datestr", <<t \div 10, t % 10>>>>

\* datetime.strptime(s, _DATETIME_FORMAT)
ParseDate(s) == s[2][1] * 10 + s[2][2]

\* In a file that another program wrote, a date can also be a string that is
\* no date, or be missing (null for the date of the last save).
BadDateStr == <<"badstr", <<>>>>
NoDateKey == <<"absent", <<>>>>

\* The date of an entry in memory is a tick count; an entry loaded without a
\* 'date' key has none, and one whose date was not parsed holds the str.
NoDate == 0 - 2
StrDate == 0 - 3

\* --------------------------------------------------------------- strings
Digit(n) == CASE n = 0 -> "0" [] n = 1 -> "1" [] n = 2 -> "2" [] n = 3 -> "3"
              [] n = 4 -> "4" [] n = 5 -> "5" [] n = 6 -> "6" [] n = 7 -> "7"
              [] n = 8 -> "8" [] n = 9 -> "9"

\* repr() of an argument: an Item defines __repr__ without its identity, and
\* the repr of an owner is the data_id the owners share
Repr(x) ==
    CASE x[1] = "int" -> <<Digit(x[2][1])>>
      [] x[1] = "owner" -> <<"i", "d">>
      [] x[1] = "Item" -> <<"<", "I", ">">>
      [] x[1] = "str" -> <<"'">> \o x[2] \o <<"'">>
      [] x[1] = "NoneType" -> <<"N", "o", "n", "e">>

RECURSIVE JoinReprs(_)
JoinReprs(s) ==
    IF Len(s) = 0 THEN <<>>
    ELSE IF Len(s) = 1 THEN Repr(s[1])
    ELSE Repr(s[1]) \o <<",", " ">> \o JoinReprs(Tail(s))

\* str() of a tuple of positional arguments
StrTuple(s) ==
    IF Len(s) = 1 THEN <<"(">> \o Repr(s[1]) \o <<",", ")">>
    ELSE <<"(">> \o JoinReprs(s) \o <<")">>

RECURSIVE JoinItems(_)
JoinItems(kw) ==
    IF Len(kw) = 0 THEN <<>>
    ELSE LET first == <<"'">> \o kw[1][1] \o <<"'", ":", " ">> \o Repr(kw[1][2])
         IN IF Len(kw) = 1 THEN first
            ELSE first \o <<",", " ">> \o JoinItems(Tail(kw))

\* StrDict that prints the keyword arguments in the order of their names
StrDict_sorted(kw) ==
    LET NameRank(name) == CASE name = <<"x">> -> 1 [] name = <<"y">> -> 2
                            [] OTHER -> 3
        sorted == IF Len(kw) = 2 /\ NameRank(kw[2][1]) < NameRank(kw[1][1])
                  THEN <<kw[2], kw[1]>> ELSE kw
    IN <<"{">> \o JoinItems(sorted) \o <<"}">>

\* str() of the keyword arguments, a dict in the order they were passed
StrDict(kw) == <<"{">> \o JoinItems(kw) \o <<"}">>

StartsWith(s, p) == Len(p) <= Len(s) /\ SubSeq(s, 1, Len(p)) = p

\* ------------------------------------------------- the wrapped operations
\* get:     @Cached()                    async def get(self, x=1, y=1, z=2)
\* get_all: @Cached(ttl=timedelta(..), clear_cache=True)      def get_all(self, x)
Ops == {"get", "get_all"}

Name(op) == IF op = "get" THEN <<"g", "e", "t">>
            ELSE <<"g", "e", "t", "_", "a", "l", "l">>

\* inspect.iscoroutinefunction(func)
IsAsync(op) == op = "get"

\* Cached.__init__: self.clear_cache
ClearFlag(op) == op = "get_all"

NoTtl == <<"None", 0>>
Days(n) == <<"days", n>>
Delta(n) == <<"timedelta", n>>

\* Cached.__init__: self.ttl
WrapperTtl(op) == IF op = "get" THEN NoTtl ELSE Delta(1)

\* The argument lists of the calls: positional arguments after the owner, and
\* keyword arguments.  The two Items are different objects with one repr.
IntOne == [args |-> <<PyInt(1)>>, kwargs |-> <<>>]
Inputs == { IntOne,
            [args |-> <<PyItem(2)>>, kwargs |-> <<>>],
            [args |-> <<PyItem(3)>>, kwargs |-> <<>>] }

\* Argument lists that only the key functions are applied to: keyword
\* arguments, and strings of 200 characters that differ in the last one.
LongStr(d) == [i \in 1..200 |-> IF i = 200 THEN Digit(d) ELSE "0"]
KeyInputs ==
    Inputs
    \cup {[args |-> <<PyStr(LongStr(d))>>, kwargs |-> <<>>] : d \in {1, 2}}
    \cup {[args |-> <<PyInt(1)>>, kwargs |-> <<<< <<"y">>, PyInt(d) >>>>] : d \in {1, 2}}
    \cup {[args |-> <<>>, kwargs |-> <<<< <<"y">>, PyInt(1) >>>>]}

\* a string of n characters that ends with the digit d
StrOfLen(n, d) == [i \in 1..n |-> IF i = n THEN Digit(d) ELSE "0"]

\* The argument lists the keys are computed of: those above, and strings
\* that bring the name with its arguments to lengths around the limit.
KeyArgs ==
    KeyInputs
    \cup {[args |-> <<PyStr(StrOfLen(n, d))>>, kwargs |-> <<>>] :
             n \in MinStrLen..MaxStrLen, d \in {1, 2}}

\* Five ways to write one call of get, with x = 1, y = 1 and z = 2:
\* get(1), get(x=1), get(), get(1, y=1, z=2) and get(1, z=2, y=1)
ByKeyword == [args |-> <<>>, kwargs |-> <<<< <<"x">>, PyInt(1) >>>>]
ByDefault == [args |-> <<>>, kwargs |-> <<>>]
OrderYZ == [args |-> <<PyInt(1)>>,
            kwargs |-> << << <<"y">>, PyInt(1) >>, << <<"z">>, PyInt(2) >> >>]
OrderZY == [args |-> <<PyInt(1)>>,
            kwargs |-> << << <<"z">>, PyInt(2) >>, << <<"y">>, PyInt(1) >> >>]
KwInputs == {IntOne, ByKeyword, ByDefault, OrderYZ, OrderZY}

\* the argument lists each operation is called with
InputsOf(op) == IF op = "get" THEN Inputs ELSE {IntOne}

\* arguments for which get returns a set, and a list that contains itself
SetInput == [args |-> <<PyInt(4)>>, kwargs |-> <<>>]
CyclicInput == [args |-> <<PyInt(5)>>, kwargs |-> <<>>]

Raised == <<"raise", <<>>>>

\* What one invocation of the underlying operation can do with the arguments:
\* return one of these values, or raise.  A call without positional arguments
\* passes x = 1 by keyword or leaves it to the default.
Outcomes(op, inp) ==
    LET n == IF inp.args = <<>> THEN 1 ELSE inp.args[1][2][1]
    IN IF op = "get_all" THEN {PyTuple(<<n, n>>), Raised}
       ELSE IF n = 1 THEN {PyInt(1), PyNone, Raised}
       ELSE IF n = 4 THEN {PySet(<<n>>)}
       ELSE IF n = 5 THEN {PyCyclic}
       ELSE {PyInt(n)}

\* -------------------------------------------------------- CachedFunction
function_name_with_args(op, inp) ==
    Name(op) \o StrTuple(inp.args) \o StrDict(inp.kwargs)

HexDigit(n) == CASE n < 10 -> Digit(n)
                 [] n = 10 -> "a" [] n = 11 -> "b" [] n = 12 -> "c"
                 [] n = 13 -> "d" [] n = 14 -> "e" [] n = 15 -> "f"

\* the code of a character of the model's strings
Ord(ch) ==
    CASE ch = "0" -> 0 [] ch = "1" -> 1 [] ch = "2" -> 2 [] ch = "3" -> 3
      [] ch = "4" -> 4 [] ch = "5" -> 5 [] ch = "6" -> 6 [] ch = "7" -> 7
      [] ch = "8" -> 8 [] ch = "9" -> 9 [] ch = "(" -> 10 [] ch = ")" -> 11
      [] ch = "," -> 12 [] ch = " " -> 13 [] ch = "{" -> 14 [] ch = "}" -> 15
      [] ch = "'" -> 16 [] ch = ":" -> 17 [] ch = "<" -> 18 [] ch = ">" -> 19
      [] ch = "_" -> 20 [] OTHER -> 21

\* the sum of the codes of s[lo..hi], each weighted with its position
RECURSIVE Checksum(_, _, _)
Checksum(s, lo, hi) ==
    IF lo > hi THEN 0
    ELSE IF lo = hi THEN (Ord(s[lo]) + 1) * lo
    ELSE LET mid == (lo + hi) \div 2
         IN (Checksum(s, lo, mid) + Checksum(s, mid + 1, hi)) % 65536

\* sha1(...).hexdigest(): 40 hexadecimal characters that depend on the whole
\* string.  A stand-in for the digest: its length and its determinism are
\* kept, and it tells apart the strings of the model.
function_hash(s) ==
    LET c == Checksum(s, 1, Len(s))
    IN [i \in 1..40 |-> HexDigit(((c \div ((i % 4) + 1)) + i) % 16)]

SignatureLimit == 180
SignatureKeep == 149

\* function_signature that cuts a long string and appends no digest
function_signature_cut(op, inp) ==
    LET s == function_name_with_args(op, inp)
    IN IF Len(s) < SignatureLimit THEN s ELSE SubSeq(s, 1, SignatureKeep)

\* function_signature with <= for <: a string of 180 characters is its own key
function_signature_le(op, inp) ==
    LET s == function_name_with_args(op, inp)
    IN IF Len(s) <= SignatureLimit THEN s
       ELSE SubSeq(s, 1, SignatureKeep) \o <<"_">> \o function_hash(s)

function_signature(op, inp) ==
    LET s == function_name_with_args(op, inp)
    IN IF Len(s) < SignatureLimit THEN s
       ELSE SubSeq(s, 1, SignatureKeep) \o <<"_">> \o function_hash(s)

\* args_after_owner that keeps the owner among the arguments
args_after_owner_all(args) == args

\* CachedFunction.function_name_with_args: self.args[1:]
args_after_owner(args) == Tail(args)

\* CachedFunction(func, args, kwargs).function_signature of a call on owner o:
\* args is the owner followed by the positional arguments
call_signature(o, op, inp) ==
    function_signature(op, [args |-> args_after_owner(<<PyOwner(o)>> \o inp.args),
                            kwargs |-> inp.kwargs])

\* ------------------------------------------------------------------ state
Owners == {"A", "B"}
Tasks == {"t1", "t2"}

EmptyMap == [k \in {} |-> {}]
Put(m, k, v) == [x \in DOMAIN m \cup {k} |-> IF x = k THEN v ELSE m[x]]
Restrict(m, S) == [x \in S |-> m[x]]

\* no file on disk; and {}, the recent save data of a fresh owner
NoFile == [exists |-> FALSE, kind |-> "full", func |-> EmptyMap,
           vars |-> EmptyMap, date |-> <<"datestr", <<0, 0>>>>]
NoSnapshot == [func |-> EmptyMap, vars |-> EmptyMap, date |-> 0 - 1]

VARIABLES
    now,                      \* datetime.now(), in ticks
    doc,                      \* the JSON file of the data_id the owners share
    alive,                    \* the owners constructed in this process
    created,                  \* ... in the order of their construction
    ttl,                      \* owner._json_cache_ttl
    func_cache,               \* owner._json_cache_func_cache
    attrs,                    \* vars(owner) without the _json_cache fields
    recent_save_data,         \* owner._json_cache_recent_save_data
    run_function_signatures,  \* Cached.run_function_signatures, per wrapper
    task,                     \* the calls in flight: the wrapper's locals
    calls,                    \* number of calls made so far
    last,                     \* history: the call that ended last
    first,                    \* history: per owner and key, the first call that
                              \*   ended well since the owner's last clear
    failed,                   \* history: the calls that raised, until the next
                              \*   call with their arguments
    computed,                 \* history: the keys computed in this process
    batch,                    \* history: the calls of get made together on an
                              \*   owner with nothing stored, their arguments
                              \*   pairwise distinct
    disk,                     \* "ok", or "denied": open() of the file raises
    cached_function,          \* a CachedFunction: its call and its signature
    stats,                    \* the dict json_cache_stats() returned last
    cache_file,               \* per owner, _json_cache_data_id and
                              \*   _json_cache_directory, and the path that
                              \*   _json_cache_filename_with_path gave last
    dynamodb,                 \* per owner, whether dynamodb_table was given
                              \*   and owner._dynamodb_enabled
    remote                    \* the remote table: the item of the data_id the
                              \*   owners share, and whether the calls of put
                              \*   and of get so far are odd in number

vars == <<now, doc, alive, created, ttl, func_cache, attrs, recent_save_data,
          run_function_signatures, task, calls, last, first, failed, computed,
          batch, disk, cached_function, stats, cache_file, dynamodb, remote>>

\* ---------------------------------------------------------------- Cached
NoEntry == [value |-> <<"absent", <<>>>>, date |-> 0 - 1]

\* Cached.max_delta: a number is a count of days, a timedelta is used as is
TtlTicks(t) == IF t[1] = "days" THEN t[2] * DayTicks ELSE t[2]

\* max_delta that reads the owner's TTL whatever the wrapper was given
max_delta_owner(op, o) == TtlTicks(ttl[o])

max_delta(op, o) ==
    IF WrapperTtl(op) = NoTtl THEN TtlTicks(ttl[o]) ELSE TtlTicks(WrapperTtl(op))

\* Cached.retrieve_from_class_cache: dict.get(function_signature)
retrieve_from_class_cache(o, sig) ==
    IF sig \in DOMAIN func_cache[o] THEN func_cache[o][sig] ELSE NoEntry

\* can_retrieve_from_cache without the clear flag
can_retrieve_from_cache_always(op, sig) == TRUE

\* can_retrieve_from_cache = not self.clear_cache or has_run_this_execution
can_retrieve_from_cache(op, sig) ==
    ~ClearFlag(op) \/ sig \in run_function_signatures[op]

\* within_ttl with >= for >: an entry lives through the instant it expires
within_ttl_inclusive(date, delta, t) == date + delta >= t

\* retrieve_from_cache['date'] + self.max_delta(cached_function) > datetime.now()
within_ttl(date, delta, t) == date + delta > t

\* IsHit with "if retrieve_from_cache" in place of "is not None": an entry
\* whose value is falsy is taken for a missing one
IsHit_truthy(o, op, sig) ==
    /\ can_retrieve_from_cache(op, sig)
    /\ retrieve_from_class_cache(o, sig) # NoEntry
    /\ retrieve_from_class_cache(o, sig).value # PyNone
    /\ within_ttl(retrieve_from_class_cache(o, sig).date, max_delta(op, o), now)

\* The wrapper's test of the entry raises: retrieve_from_cache['date'] is a
\* KeyError on an entry without a date, and str + timedelta is a TypeError.
hit_test_raises(o, op, sig) ==
    /\ can_retrieve_from_cache(op, sig)
    /\ retrieve_from_class_cache(o, sig) # NoEntry
    /\ retrieve_from_class_cache(o, sig).date \in {NoDate, StrDate}

\* the KeyError or TypeError that leaves the wrapper then
CacheError == <<"raise", <<"cache">>>>

\* the condition of the wrapper's "return the cached value" branch
IsHit(o, op, sig) ==
    /\ can_retrieve_from_cache(op, sig)
    /\ retrieve_from_class_cache(o, sig) # NoEntry
    /\ within_ttl(retrieve_from_class_cache(o, sig).date, max_delta(op, o), now)

\* store_key with the CachedFunction kept in a field of the wrapper, which a
\* later call that is in flight has replaced
store_key_shared(t) ==
    LET u == CHOOSE x \in Tasks : x # t
    IN IF task[u].pc = "running"
       THEN call_signature(task[u].owner, task[u].op, task[u].inp)
       ELSE call_signature(task[t].owner, task[t].op, task[t].inp)

\* store_in_class_cache: the key the entry is written under, the signature
\* of the call's own CachedFunction
store_key(t) == call_signature(task[t].owner, task[t].op, task[t].inp)

\* store_entry that replaces the map: func_cache = {key: entry}
store_entry_alone(cache, key, entry) == Put(EmptyMap, key, entry)

\* store_entry that keeps the entry already there: dict.setdefault
store_entry_setdefault(cache, key, entry) ==
    IF key \in DOMAIN cache THEN cache ELSE Put(cache, key, entry)

\* entry_date that keeps the date of the entry the key holds already
entry_date_kept(cache, key, t) ==
    IF key \in DOMAIN cache /\ cache[key].date >= 0 THEN cache[key].date ELSE t

\* store_in_class_cache: entry = {"value": cached_function.run(),
\* "date": datetime.now()}; the dict display evaluates run() first, so the
\* clock is read at t, when the operation has returned, whatever entry the
\* key holds
entry_date(cache, key, t) == t

\* store_in_class_cache: obj._json_cache_func_cache[key] = entry
store_entry(cache, key, entry) == Put(cache, key, entry)

\* store_after_raise with the exception swallowed and None stored
store_none_after_raise(cache, key) ==
    Put(cache, key, [value |-> PyNone, date |-> 0])

\* store_after_raise with the stale entry of the key deleted
store_after_raise_evicts(cache, key) == Restrict(cache, DOMAIN cache \ {key})

\* what store_in_class_cache leaves in the entry map when run() raises
store_after_raise(cache, key) == cache

\* store_after_hit with the date of the entry set to the time of the hit
store_after_hit_touched(cache, key, t) == [cache EXCEPT ![key].date = t]

\* what the wrapper leaves in the entry map when it returns a stored value:
\* the branch reads retrieve_from_cache['value'] and assigns no entry
store_after_hit(cache, key, t) == cache

\* map_at_save with the hook run before the entry is assigned
map_at_save_early(before, after) == before

\* store_in_class_cache: obj.json_cache_save() runs after the assignment of
\* the entry, so the hook sees the map that holds it
map_at_save(before, after) == after

\* after_save with the error of open() let through: it leaves the wrapper in
\* place of the value
after_save_propagates(v) == IF disk = "ok" THEN v ELSE CacheError

\* What the wrapper returns after store_in_class_cache: entry['value'].
\* _json_cache_save_inner has caught whatever the save raised.
after_save(v) == v

\* self.run_function_signatures.append(sig); the list is only read with "in"
\* record_status without the hasattr test: the status fields are always set
record_status_always(at, sig, status) ==
    LET seen == IF "cache_status" \in DOMAIN at THEN at["cache_status"][2]
                ELSE EmptyMap
    IN Put(Put(at, "cache_status", PyDict(Put(seen, sig, status))),
           "last_cache_status", PyStr(status))

\* the wrapper: if hasattr(obj, 'cache_status'): obj.cache_status[sig] = status;
\* obj.last_cache_status = status.  at is vars(obj).
record_status(at, sig, status) ==
    IF "cache_status" \in DOMAIN at
    THEN Put(Put(at, "cache_status", PyDict(Put(at["cache_status"][2], sig, status))),
             "last_cache_status", PyStr(status))
    ELSE at

StatusHit == <<"h", "i", "t">>
StatusMiss == <<"m", "i", "s", "s">>

append_signature(sigs, sig) == sigs \cup {sig}

\* ------------------------------------------------------------- JSONCache
JsonCachePrefix == <<"_", "j", "s", "o", "n", "_", "c", "a", "c", "h", "e", "_">>

\* getattr(self, "_excluded_cache_vars", [])
excluded(at) ==
    IF "_excluded_cache_vars" \in DOMAIN at
    THEN {at["_excluded_cache_vars"][2][i] :
              i \in 1..Len(at["_excluded_cache_vars"][2])}
    ELSE {}

\* cached_variables without the test of the excluded names
cached_variables_all(at) ==
    Restrict(at, {k \in DOMAIN at : is_jsonable(at[k])})

\* JSONCache._cached_variables; at holds no _json_cache field and no property
cached_variables(at) ==
    Restrict(at, {k \in DOMAIN at : k \notin excluded(at) /\ is_jsonable(at[k])})

\* _json_cache_data raises: is_jsonable meets a circular reference in an
\* attribute that passed the tests before it, or in an entry
json_cache_data_raises(cache, at) ==
    \/ \E k \in DOMAIN at : k \notin excluded(at) /\ is_jsonable_raises(at[k])
    \/ \E k \in DOMAIN cache :
           ~StartsWith(k, JsonCachePrefix) /\ is_jsonable_raises(cache[k].value)

\* JSONCache._json_cache_data at time t
json_cache_data(cache, at, t) ==
    [func |-> Restrict(cache, {k \in DOMAIN cache :
                  ~StartsWith(k, JsonCachePrefix) /\ is_jsonable(cache[k].value)}),
     vars |-> cached_variables(at),
     date |-> t]

\* the date of an entry as json.dump writes it: a datetime through
\* DateTimeEncoder, a str as it is, and nothing for an entry without one
dump_date(t) ==
    IF t = NoDate THEN NoDateKey ELSE IF t = StrDate THEN BadDateStr
    ELSE FormatDate(t)

\* json.dump(json_data, f, cls=DateTimeEncoder): the text of the file
DumpDoc(data) ==
    [exists |-> TRUE,
     kind |-> "full",
     func |-> [k \in DOMAIN data.func |->
                  [value |-> ToJson(data.func[k].value),
                   date |-> dump_date(data.func[k].date)]],
     vars |-> [k \in DOMAIN data.vars |-> ToJson(data.vars[k])],
     date |-> FormatDate(data.date)]

\* a save that keeps the entries of the file which the owner does not hold
save_inner_merged(cache, at, recent, d, t) ==
    IF json_cache_data_raises(cache, at) THEN d
    ELSE IF recent = json_cache_data(cache, at, t) THEN d
    ELSE IF disk # "ok" THEN d
    ELSE LET own == DumpDoc(json_cache_data(cache, at, t))
             kept == IF d.exists /\ d.kind = "full" THEN DOMAIN d.func ELSE {}
         IN [own EXCEPT !.func =
                [k \in DOMAIN own.func \cup kept |->
                    IF k \in DOMAIN own.func THEN own.func[k] ELSE d.func[k]]]

\* JSONCache._json_cache_save_inner: the file after the save of an owner
save_inner(cache, at, recent, d, t) ==
    IF json_cache_data_raises(cache, at) THEN d
    ELSE IF recent = json_cache_data(cache, at, t) THEN d
    ELSE IF disk # "ok" THEN d
    ELSE DumpDoc(json_cache_data(cache, at, t))

\* -------------------------------------------------------- the remote tier
\* The remote store (a DynamoDB table behind dynamorator's DynamoDBStore) and
\* the part of JSONCache that uses it are not part of the sources at hand:
\* they are modelled after the specification and the tests of the remote tier.

\* an owner without dynamodb_table, and the table before the first put
NoDynamo == [table |-> FALSE, enabled |-> FALSE]
NoItem == [exists |-> FALSE, compressed |-> FALSE,
           data |-> [layers |-> <<>>, doc |-> NoFile], ttl |-> <<"default", 0>>]
EmptyTable == [item |-> NoItem, puts |-> 0, gets |-> 0]

\* _DYNAMODB_COMPRESS_THRESHOLD and _DYNAMODB_MAX_SIZE, in bytes
DynamodbCompressThreshold == 100000
DynamodbMaxSize == 400000

\* the bytes of the values of a JSON object: a long string has its n bytes
\* and the quotes, every other value of the model counts as 8 bytes
RECURSIVE ValueBytes(_, _)
ValueBytes(m, packed) ==
    IF DOMAIN m = {} THEN 0
    ELSE LET k == CHOOSE x \in DOMAIN m : TRUE
             j == m[k]
             own == IF j[1] = "bigstring"
                    THEN (IF packed THEN j[2][2] ELSE j[2][1] + 2) ELSE 8
         IN own + ValueBytes(Restrict(m, DOMAIN m \ {k}), packed)

\* len(json.dumps(data)): the three keys of the document, with 64 bytes for
\* each name and date, the entries, and the variables
SerializedSize(d) == 64 + 64 * Cardinality(DOMAIN d.func) + ValueBytes(d.vars, FALSE)

\* len(gzip.compress(...)) of the same bytes
CompressedSize(d) == 64 + 64 * Cardinality(DOMAIN d.func) + ValueBytes(d.vars, TRUE)

\* The data of an item: a document under the encodings applied to it, the
\* last one first.  json.dumps(...).encode() and json.loads, gzip.compress and
\* gzip.decompress, base64.b64encode and base64.b64decode; what is not in
\* the encoding to be removed decodes to nothing.
Garbled == [layers |-> <<"garbled">>, doc |-> NoFile]
json_dumps(d) == [layers |-> <<>>, doc |-> d]
json_loads(b) == IF b.layers = <<>> THEN b.doc ELSE NoFile
gzip_compress(b) == [b EXCEPT !.layers = <<"gzip">> \o @]
gzip_decompress(b) ==
    IF b.layers # <<>> /\ Head(b.layers) = "gzip"
    THEN [b EXCEPT !.layers = Tail(@)] ELSE Garbled
b64encode(b) == [b EXCEPT !.layers = <<"base64">> \o @]
b64decode(b) ==
    IF b.layers # <<>> /\ Head(b.layers) = "base64"
    THEN [b EXCEPT !.layers = Tail(@)] ELSE Garbled

\* the remote TTL: the owner's count of days, or the default of the store
remote_ttl(tt) == IF tt[1] = "days" THEN tt ELSE <<"default", 0>>

\* DynamoDBStore.put(data_id, item, ttl_days)
put(table, payload, tt) ==
    [item |-> [exists |-> TRUE, compressed |-> payload.compressed,
               data |-> payload.data, ttl |-> remote_ttl(tt)],
     puts |-> (table.puts + 1) % 2,
     gets |-> table.gets]

\* DynamoDBStore.get(data_id): the table after the call
get(table) == [table EXCEPT !.gets = (@ + 1) % 2]

\* write_to_dynamodb that compresses a snapshot of as many bytes as the
\* threshold
write_to_dynamodb_lt(data, tt, table) ==
    LET d == DumpDoc(data)
    IN IF SerializedSize(d) < DynamodbCompressThreshold
       THEN put(table, [compressed |-> FALSE, data |-> json_dumps(d)], tt)
       ELSE IF CompressedSize(d) > DynamodbMaxSize THEN table
       ELSE put(table, [compressed |-> TRUE,
                        data |-> b64encode(gzip_compress(json_dumps(d)))], tt)

\* JSONCache._write_to_dynamodb: the snapshot as it is when its bytes do not
\* exceed the threshold, and in the compressed envelope otherwise; nothing
\* is written when the compressed bytes still exceed the size of an item
write_to_dynamodb(data, tt, table) ==
    LET d == DumpDoc(data)
    IN IF SerializedSize(d) <= DynamodbCompressThreshold
       THEN put(table, [compressed |-> FALSE, data |-> json_dumps(d)], tt)
       ELSE IF CompressedSize(d) > DynamodbMaxSize THEN table
       ELSE put(table, [compressed |-> TRUE,
                        data |-> b64encode(gzip_compress(json_dumps(d)))], tt)

\* JSONCache._load_from_dynamodb: the document of an item
load_from_dynamodb(item) ==
    IF ~item.exists THEN NoFile
    ELSE IF item.compressed
    THEN json_loads(gzip_decompress(b64decode(item.data)))
    ELSE json_loads(item.data)

\* save_remote that does not ask whether the owner has an enabled store
save_remote_always(dyn, cache, at, tt, table, t) ==
    IF json_cache_data_raises(cache, at) THEN table
    ELSE write_to_dynamodb(json_cache_data(cache, at, t), tt, table)

\* json_cache_save, the remote tier: the table after the save of an owner.
\* The snapshot is written when the owner has a store and it is enabled.
save_remote(dyn, cache, at, tt, table, t) ==
    IF ~dyn.enabled \/ json_cache_data_raises(cache, at) THEN table
    ELSE write_to_dynamodb(json_cache_data(cache, at, t), tt, table)

\* load_reads without the check of the structure
load_reads_any(d) ==
    disk = "ok" /\ d.exists /\ d.kind # "undecodable"

\* _json_cache_load_inner got the data and passed the check of its structure
load_reads(d) ==
    disk = "ok" /\ d.exists /\ d.kind \in {"full", "novars"}

\* _load_variables_from_data raises: ValueError from strptime, or KeyError
\* when the variables are to be set and the file has none
load_variables_raises(d, tt, t) ==
    \/ d.date = BadDateStr
    \/ /\ d.date[1] = "datestr"
       /\ within_ttl(ParseDate(d.date), TtlTicks(tt), t)
       /\ d.kind = "novars"

\* load_variables without the test of the age of the file
load_variables_always(at, d, tt, t) ==
    IF d.date[1] # "datestr" \/ d.kind = "novars" THEN at
    ELSE [k \in DOMAIN at \cup DOMAIN d.vars |->
             IF k \in DOMAIN d.vars THEN FromJson(d.vars[k]) ELSE at[k]]

\* JSONCache._load_variables_from_data: setattr of every saved variable
load_variables(at, d, tt, t) ==
    IF d.date[1] # "datestr" \/ d.kind = "novars" THEN at
    ELSE IF within_ttl(ParseDate(d.date), TtlTicks(tt), t)
    THEN [k \in DOMAIN at \cup DOMAIN d.vars |->
             IF k \in DOMAIN d.vars THEN FromJson(d.vars[k]) ELSE at[k]]
    ELSE at

\* load_function_cache that stamps the entries with the date of the document
load_function_cache_stamped(d) ==
    [k \in DOMAIN d.func |->
        [value |-> FromJson(d.func[k].value), date |-> ParseDate(d.date)]]

\* the date of a loaded entry: only a str is converted, and strptime raises
\* on one that is no date after the entry was put into the map
load_date(s) ==
    IF s = NoDateKey THEN NoDate ELSE IF s = BadDateStr THEN StrDate
    ELSE ParseDate(s)

\* JSONCache._load_function_cache_from_data
load_function_cache(d) ==
    [k \in DOMAIN d.func |->
        [value |-> FromJson(d.func[k].value), date |-> load_date(d.func[k].date)]]

\* The keys _load_function_cache_from_data has put into the map when it ends:
\* all of them, or, when strptime raises on an entry, that entry and those
\* that precede it in the file.
loaded_keys(d) ==
    LET bad == {k \in DOMAIN d.func : d.func[k].date = BadDateStr}
    IN IF bad = {} THEN {DOMAIN d.func}
       ELSE {S \cup {b} : b \in bad, S \in SUBSET (DOMAIN d.func \ bad)}

\* json_cache_stats: the name an entry is counted under, and the dict returned
func_name(key) ==
    LET at == {i \in 1..Len(key) : key[i] = "("}
    IN IF at = {} THEN key
       ELSE SubSeq(key, 1, (CHOOSE i \in at : \A j \in at : i <= j) - 1)

json_cache_stats_names(cache) ==
    [total_entries |-> Cardinality({func_name(k) : k \in DOMAIN cache}),
     functions |-> [n \in {func_name(k) : k \in DOMAIN cache} |->
                       Cardinality({k \in DOMAIN cache : func_name(k) = n})]]

json_cache_stats(cache) ==
    [total_entries |-> Cardinality(DOMAIN cache),
     functions |-> [n \in {func_name(k) : k \in DOMAIN cache} |->
                       Cardinality({k \in DOMAIN cache : func_name(k) = n})]]

\* no dict returned yet
NoStats == [total_entries |-> 0 - 1, functions |-> EmptyMap]

\* json_cache_clear: the keys that stay
clear_keys_named(cache, all, name) ==
    IF all THEN {} ELSE {k \in DOMAIN cache : func_name(k) # name}

clear_keys(cache, all, name) ==
    IF all THEN {} ELSE {k \in DOMAIN cache : ~StartsWith(k, name)}

\* ---------------------------------------------------------- the file name
\* slugify (python-slugify, with its defaults) on the characters of the
\* model: the letters are lower-cased, every run of characters that are not
\* letters or digits becomes one "-", and no "-" is left at either end.
LowerLetters ==
    {"a", "b", "c", "d", "e", "f", "g", "h", "i", "j", "k", "l", "m", "n",
     "o", "p", "q", "r", "s", "t", "u", "v", "w", "x", "y", "z"}
Digits == {"0", "1", "2", "3", "4", "5", "6", "7", "8", "9"}
Lower(ch) == CASE ch = "M" -> "m" [] ch = "A" -> "a" [] OTHER -> ch

slugify(text) ==
    LET n == Len(text)
        dashed == [i \in 1..n |->
                     IF Lower(text[i]) \in LowerLetters \cup Digits
                     THEN Lower(text[i]) ELSE "-"]
        strong == {i \in 1..n : dashed[i] # "-"}
        dropped == {i \in 1..n \ strong :
                      \/ i - 1 \notin strong
                      \/ \A j \in strong : j < i}
        kept(k) == CHOOSE i \in (1..n) \ dropped :
                      i - Cardinality({j \in dropped : j < i}) = k
    IN IF dropped = {} THEN dashed
       ELSE [k \in 1..(n - Cardinality(dropped)) |-> dashed[kept(k)]]

MaxFilenameLength == 180
TruncateLength == 140

\* sha256(...).hexdigest(): 64 hexadecimal characters that depend on the
\* whole string.  A stand-in for the digest, as function_hash is.
sha256_hexdigest(s) ==
    LET c == Checksum(s, 1, Len(s))
    IN [i \in 1..64 |-> HexDigit(((c \div ((i % 4) + 1)) + i) % 16)]

\* the name before slugify, with <= for <: an id of 180 characters is used whole
filename_of_le(data_id) ==
    IF Len(data_id) <= MaxFilenameLength THEN data_id
    ELSE SubSeq(data_id, 1, TruncateLength) \o <<"-">> \o sha256_hexdigest(data_id)

\* _json_cache_filename_with_path: the name before slugify
filename_of(data_id) ==
    IF Len(data_id) < MaxFilenameLength THEN data_id
    ELSE SubSeq(data_id, 1, TruncateLength) \o <<"-">> \o sha256_hexdigest(data_id)

\* _json_cache_filename_with_path
json_cache_filename_with_path(data_id, directory) ==
    LET separator == IF directory # <<>> /\ directory[Len(directory)] # "/"
                     THEN <<"/">> ELSE <<>>
    IN directory \o separator \o slugify(filename_of(data_id))
           \o <<".", "j", "s", "o", "n">>

\* the directory and the data_id of the owners that share the file doc
TestCache == <<"t", "e", "s", "t", "_", "c", "a", "c", "h", "e">>
SharedId == <<"i", "d">>
NoPath == <<>>
SharedFile ==
    [o \in Owners |-> [data_id |-> SharedId, directory |-> TestCache,
                        path |-> NoPath]]

\* ----------------------------------------------------------------- calls
\* A call in flight holds the wrapper's locals (owner, op, inp) and, as
\* history,
\*   twin:   a call of the same owner with the same arguments has returned
\*           while this one was in flight
\*   stored: a call of the same wrapper with the same key has returned while
\*           this one was in flight
\*   after:  this is the next call after one with its arguments raised:
\*           "clean", or "dirty" when a call with its key has returned since
\*           that one was made; otherwise "no"
IdleTask == [pc |-> "idle", owner |-> "A", op |-> "get", inp |-> IntOne,
             twin |-> FALSE, stored |-> FALSE, after |-> "no"]

NoCall == [kind |-> "none", owner |-> "A", op |-> "get", inp |-> IntOne,
           value |-> PyNone, twin |-> FALSE, after |-> "no"]

Running(t) == task[t].pc = "running"

\* a synchronous operation that is running holds the only thread
Busy == \E t \in Tasks : Running(t) /\ ~IsAsync(task[t].op)

FreeSlot == IF ~Running("t1") THEN "t1" ELSE "t2"

AfterRaise(o, op, inp) ==
    IF [owner |-> o, op |-> op, inp |-> inp, clean |-> TRUE] \in failed THEN "clean"
    ELSE IF [owner |-> o, op |-> op, inp |-> inp, clean |-> FALSE] \in failed
    THEN "dirty" ELSE "no"

\* The batch: it opens with a call of get on an owner that has nothing stored
\* while no call is in flight, takes the calls of get with other arguments
\* made on that owner while one of its calls is in flight, and is done when
\* the last of them has returned; ninv counts the invocations.
NoBatch == [phase |-> "none", owner |-> "A", inps |-> {}, ninv |-> 0]

batch_call(o, op, inp, sig) ==
    LET inv == IF IsHit(o, op, sig) THEN 0 ELSE 1
    IN IF batch.phase = "open"
       THEN IF o = batch.owner /\ op = "get" /\ inp \notin batch.inps
            THEN [batch EXCEPT !.inps = @ \cup {inp}, !.ninv = @ + inv]
            ELSE NoBatch
       ELSE IF batch.phase = "none" /\ op = "get" /\ func_cache[o] = EmptyMap
               /\ \A u \in Tasks : ~Running(u)
       THEN [phase |-> "open", owner |-> o, inps |-> {inp}, ninv |-> inv]
       ELSE batch

\* a CachedFunction whose function_signature was not read yet
NotComputed == <<>>
KeyCall(o, op, inp) == [owner |-> o, op |-> op, inp |-> inp, signature |-> NotComputed]

InitOwners ==
    /\ now = 0
    /\ stats = NoStats
    /\ dynamodb = [o \in Owners |-> NoDynamo]
    /\ remote = EmptyTable
    /\ doc = NoFile
    /\ alive = [o \in Owners |-> FALSE]
    /\ created = <<>>
    /\ ttl = [o \in Owners |-> Days(0)]
    /\ func_cache = [o \in Owners |-> EmptyMap]
    /\ attrs = [o \in Owners |-> EmptyMap]
    /\ recent_save_data = [o \in Owners |-> NoSnapshot]
    /\ run_function_signatures = [op \in Ops |-> {}]
    /\ task = [t \in Tasks |-> IdleTask]
    /\ calls = 0
    /\ last = NoCall
    /\ first = [o \in Owners |-> EmptyMap]
    /\ failed = {}
    /\ computed = [op \in Ops |-> {}]
    /\ batch = NoBatch
    /\ disk = "ok"

Init ==
    /\ InitOwners
    /\ cached_function = KeyCall("A", "get", IntOne)
    /\ cache_file = SharedFile

\* the clock advances
Tick ==
    /\ now < MaxTime
    /\ now' = now + 1
    /\ UNCHANGED <<dynamodb, remote, stats, cache_file, doc, alive, created, ttl, func_cache, attrs, recent_save_data,
                   run_function_signatures, task, calls, last, first, failed,
                   computed, batch, disk, cached_function>>

\* The wrapper, up to the return of a hit or the invocation of the operation.
Call(o, op, inp) ==
    LET sig == call_signature(o, op, inp)
        seen == retrieve_from_class_cache(o, sig)
    IN /\ alive[o] /\ ~Busy
       /\ calls < MaxCalls
       /\ ~Running(FreeSlot)
       /\ calls' = calls + 1
       /\ failed' = {r \in failed : ~(r.owner = o /\ r.op = op /\ r.inp = inp)}
       /\ \/ /\ hit_test_raises(o, op, sig)
             /\ last' = [kind |-> "crash", owner |-> o, op |-> op, inp |-> inp,
                         value |-> CacheError, twin |-> FALSE,
                         after |-> AfterRaise(o, op, inp)]
             /\ UNCHANGED <<task, first, attrs, func_cache>>
          \/ /\ ~hit_test_raises(o, op, sig)
             /\ IsHit(o, op, sig)
             /\ func_cache' = [func_cache EXCEPT
                    ![o] = store_after_hit(@, sig, now)]
             /\ last' = [kind |-> "hit", owner |-> o, op |-> op, inp |-> inp,
                         value |-> seen.value, twin |-> FALSE,
                         after |-> AfterRaise(o, op, inp)]
             /\ first' = IF sig \in DOMAIN first[o] THEN first
                         ELSE [first EXCEPT ![o] = Put(@, sig,
                                  [inp |-> inp, value |-> seen.value,
                                   date |-> seen.date, over |-> FALSE])]
             /\ attrs' = [attrs EXCEPT ![o] = record_status(@, sig, StatusHit)]
             /\ UNCHANGED task
          \/ /\ ~hit_test_raises(o, op, sig)
             /\ ~IsHit(o, op, sig)
             /\ task' = [task EXCEPT ![FreeSlot] =
                            [pc |-> "running", owner |-> o, op |-> op, inp |-> inp,
                             twin |-> FALSE, stored |-> FALSE,
                             after |-> AfterRaise(o, op, inp)]]
             /\ UNCHANGED <<last, first, attrs, func_cache>>
       /\ batch' = batch_call(o, op, inp, sig)
       /\ UNCHANGED <<dynamodb, remote, stats, cache_file, now, doc, alive, created, ttl,
                      recent_save_data, run_function_signatures, computed, disk, cached_function>>

\* The operation returns v: store_in_class_cache and the rest of the wrapper.
Return(t, v) ==
    LET c == task[t]
        o == c.owner
        sig == call_signature(o, c.op, c.inp)
        cache == store_entry(func_cache[o], store_key(t),
                             [value |-> v,
                              date |-> entry_date(func_cache[o], store_key(t), now)])
    IN /\ Running(t)
       /\ Busy => ~IsAsync(c.op)
       /\ v \in Outcomes(c.op, c.inp) \ {Raised}
       /\ func_cache' = [func_cache EXCEPT ![o] = cache]
       /\ doc' = save_inner(map_at_save(func_cache[o], cache), attrs[o],
                            recent_save_data[o], doc, now)
       /\ remote' = save_remote(dynamodb[o], map_at_save(func_cache[o], cache),
                                attrs[o], ttl[o], remote, now)
       /\ run_function_signatures' = [run_function_signatures EXCEPT
              ![c.op] = append_signature(@, store_key(t))]
       /\ task' = [u \in Tasks |->
              IF u = t THEN IdleTask
              ELSE IF Running(u) /\ task[u].op = c.op
                      /\ call_signature(task[u].owner, task[u].op, task[u].inp) = sig
              THEN [task[u] EXCEPT
                       !.twin = @ \/ (task[u].owner = o /\ task[u].inp = c.inp),
                       !.stored = TRUE]
              ELSE task[u]]
       /\ last' = [kind |-> "miss", owner |-> o, op |-> c.op, inp |-> c.inp,
                   value |-> after_save(v), twin |-> c.twin, after |-> c.after]
       /\ first' = [first EXCEPT ![o] =
              IF sig \in DOMAIN @ THEN [@ EXCEPT ![sig].over = TRUE]
              ELSE Put(@, sig, [inp |-> c.inp, value |-> v, date |-> now,
                                over |-> FALSE])]
       /\ failed' = {IF r.op = c.op /\ function_signature(r.op, r.inp) = sig
                     THEN [r EXCEPT !.clean = FALSE] ELSE r : r \in failed}
       /\ computed' = [computed EXCEPT ![c.op] = @ \cup {sig}]
       /\ batch' = IF batch.phase = "open" /\ \A u \in Tasks \ {t} : ~Running(u)
                   THEN [batch EXCEPT !.phase = "done"] ELSE batch
       /\ attrs' = [attrs EXCEPT ![o] = record_status(@, sig, StatusMiss)]
       /\ UNCHANGED <<dynamodb, stats, cache_file, now, alive, created, ttl, recent_save_data, calls,
                      disk, cached_function>>

\* The operation raises: the exception leaves the wrapper.
Raise(t) ==
    LET c == task[t]
    IN /\ Running(t)
       /\ Busy => ~IsAsync(c.op)
       /\ Raised \in Outcomes(c.op, c.inp)
       /\ func_cache' = [func_cache EXCEPT
              ![c.owner] = store_after_raise(@, store_key(t))]
       /\ task' = [task EXCEPT ![t] = IdleTask]
       /\ last' = [kind |-> "raise", owner |-> c.owner, op |-> c.op, inp |-> c.inp,
                   value |-> Raised, twin |-> c.twin, after |-> c.after]
       /\ failed' = {r \in failed : ~(r.owner = c.owner /\ r.op = c.op /\ r.inp = c.inp)}
                    \cup {[owner |-> c.owner, op |-> c.op, inp |-> c.inp,
                           clean |-> ~c.stored]}
       /\ batch' = IF batch.phase = "open" THEN NoBatch ELSE batch
       /\ UNCHANGED <<dynamodb, remote, stats, cache_file, now, doc, alive, created, ttl, attrs, recent_save_data,
                      run_function_signatures, calls, first, computed, disk, cached_function>>

\* ------------------------------------------- the async wrapper, step by step
\* The coroutine of a call of an async operation, one statement at a time.
\* Its place is task[t].pc: "entered" (the CachedFunction is made), "running"
\* (the wrapped operation is awaited), "stored" (the entry is written),
\* "saved" (json_cache_save has returned), "appended" (the key is in
\* run_function_signatures); then the status is recorded and the value
\* returned.  The event loop runs one coroutine until it awaits.

\* await_points with the save awaited too, as with an async persistence hook
await_points_save == {"running", "stored"}

\* the places at which the coroutine awaits: "await cached_function.run()"
await_points == {"running"}

\* no other coroutine is between two awaits: the event loop can run t
LoopFreeFor(t) ==
    \A u \in Tasks \ {t} : task[u].pc \in await_points \cup {"idle"}

IdleSlot == IF task["t1"].pc = "idle" THEN "t1" ELSE "t2"

\* waits_for with single flight: a call waits for the identical calls in flight
waits_for_twins(tk, t) ==
    {u \in Tasks \ {t} :
        /\ tk[u].pc # "idle" /\ tk[u].owner = tk[t].owner /\ tk[u].op = tk[t].op
        /\ tk[u].inp = tk[t].inp}

\* The calls that the wrapper makes call t wait for before it goes on: none.
\* async_wrapper takes no lock and awaits nothing but the operation itself.
waits_for(tk, t) == {}

\* async_wrapper is entered: cached_function = CachedFunction(func, args, kwargs)
Enter(o, op, inp) ==
    /\ alive[o] /\ IsAsync(op)
    /\ calls < MaxCalls
    /\ task[IdleSlot].pc = "idle" /\ LoopFreeFor(IdleSlot)
    /\ calls' = calls + 1
    /\ task' = [task EXCEPT ![IdleSlot] =
                   [pc |-> "entered", owner |-> o, op |-> op, inp |-> inp,
                    twin |-> FALSE, stored |-> FALSE, after |-> "no"]]
    /\ UNCHANGED <<dynamodb, remote, now, doc, alive, created, ttl, func_cache, attrs,
                   recent_save_data, run_function_signatures, last, first,
                   failed, computed, batch, disk, cached_function, stats,
                   cache_file>>

\* the lookup and the test, up to the return of a hit or the await
Lookup(t) ==
    LET c == task[t]
        sig == call_signature(c.owner, c.op, c.inp)
        seen == retrieve_from_class_cache(c.owner, sig)
    IN /\ c.pc = "entered" /\ LoopFreeFor(t)
       /\ \A u \in waits_for(task, t) : task[u].pc = "idle"
       /\ \/ /\ hit_test_raises(c.owner, c.op, sig)
             /\ last' = [kind |-> "crash", owner |-> c.owner, op |-> c.op,
                         inp |-> c.inp, value |-> CacheError, twin |-> FALSE,
                         after |-> "no"]
             /\ task' = [task EXCEPT ![t] = IdleTask]
             /\ UNCHANGED <<attrs, func_cache>>
          \/ /\ ~hit_test_raises(c.owner, c.op, sig)
             /\ IsHit(c.owner, c.op, sig)
             /\ func_cache' = [func_cache EXCEPT
                    ![c.owner] = store_after_hit(@, sig, now)]
             /\ last' = [kind |-> "hit", owner |-> c.owner, op |-> c.op,
                         inp |-> c.inp, value |-> seen.value, twin |-> FALSE,
                         after |-> "no"]
             /\ attrs' = [attrs EXCEPT
                    ![c.owner] = record_status(@, sig, StatusHit)]
             /\ task' = [task EXCEPT ![t] = IdleTask]
          \/ /\ ~hit_test_raises(c.owner, c.op, sig)
             /\ ~IsHit(c.owner, c.op, sig)
             /\ task' = [task EXCEPT ![t].pc = "running"]
             /\ UNCHANGED <<last, attrs, func_cache>>
       /\ UNCHANGED <<dynamodb, remote, now, doc, alive, created, ttl,
                      recent_save_data, run_function_signatures, calls, first,
                      failed, computed, batch, disk, cached_function, stats,
                      cache_file>>

\* the operation returns v: entry = {"value": v, "date": datetime.now()} and
\* obj._json_cache_func_cache[key] = entry
Store(t, v) ==
    LET c == task[t]
    IN /\ c.pc = "running" /\ LoopFreeFor(t)
       /\ v \in Outcomes(c.op, c.inp) \ {Raised}
       /\ func_cache' = [func_cache EXCEPT ![c.owner] =
              store_entry(@, store_key(t),
                          [value |-> v,
                           date |-> entry_date(@, store_key(t), now)])]
       /\ task' = [task EXCEPT ![t].pc = "stored"]
       /\ UNCHANGED <<dynamodb, remote, now, doc, alive, created, ttl, attrs, recent_save_data,
                      run_function_signatures, calls, last, first, failed,
                      computed, batch, disk, cached_function, stats, cache_file>>

\* obj.json_cache_save()
Persist(t) ==
    LET c == task[t]
    IN /\ c.pc = "stored" /\ LoopFreeFor(t)
       /\ doc' = save_inner(func_cache[c.owner], attrs[c.owner],
                            recent_save_data[c.owner], doc, now)
       /\ remote' = save_remote(dynamodb[c.owner], func_cache[c.owner],
                                attrs[c.owner], ttl[c.owner], remote, now)
       /\ task' = [task EXCEPT ![t].pc = "saved"]
       /\ UNCHANGED <<dynamodb, now, alive, created, ttl, func_cache, attrs,
                      recent_save_data, run_function_signatures, calls, last,
                      first, failed, computed, batch, disk, cached_function,
                      stats, cache_file>>

\* self.run_function_signatures.append(sig)
AppendKey(t) ==
    LET c == task[t]
    IN /\ c.pc = "saved" /\ LoopFreeFor(t)
       /\ run_function_signatures' = [run_function_signatures EXCEPT
              ![c.op] = append_signature(@, store_key(t))]
       /\ task' = [task EXCEPT ![t].pc = "appended"]
       /\ UNCHANGED <<dynamodb, remote, now, doc, alive, created, ttl, func_cache, attrs,
                      recent_save_data, calls, last, first, failed, computed,
                      batch, disk, cached_function, stats, cache_file>>

\* the status is recorded and entry['value'] returned
Finish(t) ==
    LET c == task[t]
        sig == store_key(t)
    IN /\ c.pc = "appended" /\ LoopFreeFor(t)
       /\ attrs' = [attrs EXCEPT ![c.owner] = record_status(@, sig, StatusMiss)]
       /\ last' = [kind |-> "miss", owner |-> c.owner, op |-> c.op,
                   inp |-> c.inp, value |-> func_cache[c.owner][sig].value,
                   twin |-> FALSE, after |-> "no"]
       /\ task' = [task EXCEPT ![t] = IdleTask]
       /\ UNCHANGED <<dynamodb, remote, now, doc, alive, created, ttl, func_cache,
                      recent_save_data, run_function_signatures, calls, first,
                      failed, computed, batch, disk, cached_function, stats,
                      cache_file>>

\* ------------------------------------------------------------ the owners
\* the values a subclass gives to ttl, and the attributes it sets before it
\* calls JSONCache.__init__
OwnerTtls == {Days(0), Days(1)}
PreAttrs == {EmptyMap, [k \in {"_excluded_cache_vars"} |-> PyStrList(<<"temp_data">>)]}

\* the attributes the program assigns, and the values it gives them
UserAttrs == {"counter", "temp_data"}
UserValues == {PyInt(0), PyInt(1)}

\* __init__ that loads whatever clear_cache says
init_loads_always(c, d) == load_reads(d)

\* __init__: "if not self._json_cache_clear_cache: self._json_cache_load()",
\* and the load reads the document
init_loads(c, d) == ~c /\ load_reads(d)

\* reads_remote that asks the remote store whatever the local tier holds
reads_remote_always(c, dyn, d) == ~c /\ dyn.enabled

\* The load turns to the remote store: the owner has an enabled store and
\* open() raised FileNotFoundError.
reads_remote(c, dyn, d) == ~c /\ dyn.enabled /\ disk = "ok" /\ ~d.exists

\* Whether the load ends with the write-back to the remote store: it does
\* after a load that restored a document, and never without a load.  What a
\* load that restored nothing does is not laid down, so it may or may not.
write_back(c, dyn, complete) ==
    IF complete THEN {TRUE} ELSE IF ~c /\ dyn.enabled THEN BOOLEAN ELSE {FALSE}

\* JSONCache.__init__(clear_cache=c, ttl=tt) of an owner whose subclass has
\* set the attributes pre.  Owner B stands for the owner constructed second.
\* The file at the owner's path is d.  dyn tells whether dynamodb_table was
\* given and whether the store is enabled: the document of the remote item
\* is loaded in place of a file that is not found, and the snapshot of the
\* owner is written back to the store after the load.
ConstructWith(o, c, tt, pre, d, dyn) ==
    LET asks == reads_remote(c, dyn, d)
        from == IF asks THEN load_from_dynamodb(remote.item) ELSE d
        loads == init_loads(c, from)
        vars_ok == loads /\ ~load_variables_raises(from, tt, now)
        at == IF vars_ok THEN load_variables(pre, from, tt, now) ELSE pre
        asked == IF asks THEN get(remote) ELSE remote
    IN /\ ~alive[o] /\ ~Busy
       /\ o = "B" => alive["A"]
       /\ alive' = [alive EXCEPT ![o] = TRUE]
       /\ created' = Append(created, o)
       /\ ttl' = [ttl EXCEPT ![o] = tt]
       /\ attrs' = [attrs EXCEPT ![o] = at]
       /\ dynamodb' = [dynamodb EXCEPT ![o] = dyn]
       /\ \E keys \in (IF vars_ok THEN loaded_keys(from) ELSE {{}}) :
            LET cache == Restrict(load_function_cache(from), keys)
                complete == vars_ok /\ keys = DOMAIN from.func
            IN /\ func_cache' = [func_cache EXCEPT ![o] = cache]
               /\ recent_save_data' = [recent_save_data EXCEPT
                      ![o] = IF loads /\ ~json_cache_data_raises(cache, at)
                             THEN json_cache_data(cache, at, now)
                             ELSE NoSnapshot]
               /\ \E back \in write_back(c, dyn, complete) :
                      remote' = IF back
                                THEN save_remote(dyn, cache, at, tt, asked, now)
                                ELSE asked
       /\ UNCHANGED <<stats, cache_file, now, doc, run_function_signatures, task, calls, last, first,
                      failed, computed, batch, disk, cached_function>>

\* JSONCache.__init__ without dynamodb_table
ConstructOver(o, c, tt, pre, d) == ConstructWith(o, c, tt, pre, d, NoDynamo)

\* JSONCache.__init__(clear_cache=True, dynamodb_table=...), where
\* DynamoDBStore.is_enabled() gives en
ConstructRemote(o, tt, pre, en) ==
    ConstructWith(o, TRUE, tt, pre, doc, [table |-> TRUE, enabled |-> en])

\* JSONCache.__init__(clear_cache=False, dynamodb_table=...)
ConstructLoading(o, tt, pre, en) ==
    ConstructWith(o, FALSE, tt, pre, doc, [table |-> TRUE, enabled |-> en])

\* the owners of the model share one data_id and one directory: doc is the
\* file at their path
Construct(o, c, tt, pre) == ConstructOver(o, c, tt, pre, doc)

\* owner.json_cache_save()
Save(o) ==
    /\ alive[o] /\ ~Busy
    /\ doc' = save_inner(func_cache[o], attrs[o], recent_save_data[o], doc, now)
    /\ remote' = save_remote(dynamodb[o], func_cache[o], attrs[o], ttl[o],
                             remote, now)
    /\ UNCHANGED <<dynamodb, stats, cache_file, now, alive, created, ttl, func_cache, attrs, recent_save_data,
                   run_function_signatures, task, calls, last, first, failed,
                   computed, batch, disk, cached_function>>

\* calls_after_clear with the calls in flight on the owner given up
calls_after_clear_cancelled(tk, o) ==
    [t \in Tasks |-> IF tk[t].owner = o THEN IdleTask ELSE tk[t]]

\* The calls in flight after json_cache_clear: it clears or deletes in the
\* entry map and touches nothing else, so the calls on the owner go on.
calls_after_clear(tk, o) == tk

\* owner.json_cache_clear() and owner.json_cache_clear(function_name)
Clear(o, all, name) ==
    /\ alive[o] /\ ~Busy
    /\ func_cache' = [func_cache EXCEPT ![o] = Restrict(@, clear_keys(@, all, name))]
    /\ last' = IF last.owner = o THEN NoCall ELSE last
    /\ first' = [first EXCEPT ![o] = EmptyMap]
    /\ batch' = IF batch.owner = o THEN NoBatch ELSE batch
    /\ task' = calls_after_clear(task, o)
    /\ UNCHANGED <<dynamodb, remote, stats, cache_file, now, doc, alive, created, ttl, attrs, recent_save_data,
                   run_function_signatures, calls, failed, computed, disk, cached_function>>

\* owner.json_cache_stats()
Stats(o) ==
    /\ alive[o] /\ ~Busy
    /\ stats' = json_cache_stats(func_cache[o])
    /\ UNCHANGED <<dynamodb, remote, now, doc, alive, created, ttl, func_cache, attrs,
                   recent_save_data, run_function_signatures, task, calls, last,
                   first, failed, computed, batch, disk, cached_function,
                   cache_file>>

\* the program assigns an attribute of the owner
SetAttr(o, k, v) ==
    /\ alive[o] /\ ~Busy
    /\ attrs' = [attrs EXCEPT ![o] = Put(@, k, v)]
    /\ UNCHANGED <<dynamodb, remote, stats, cache_file, now, doc, alive, created, ttl, func_cache, recent_save_data,
                   run_function_signatures, task, calls, last, first, failed,
                   computed, batch, disk, cached_function>>

\* weakref.finalize(self, self.json_cache_save) at the exit of the process:
\* the finalizers run in the reverse order of their creation
RECURSIVE ExitSaves(_, _)
ExitSaves(d, order) ==
    IF Len(order) = 0 THEN d
    ELSE LET o == order[Len(order)]
         IN ExitSaves(
                save_inner(func_cache[o], attrs[o], recent_save_data[o], d, now),
                SubSeq(order, 1, Len(order) - 1))

\* The process ends; the next one starts with the file it left.  The owners
\* are not configured to flush the remote tier when they are disposed of.
Exit ==
    /\ created # <<>> /\ ~Busy
    /\ doc' = ExitSaves(doc, created)
    /\ dynamodb' = [o \in Owners |-> NoDynamo]
    /\ alive' = [o \in Owners |-> FALSE]
    /\ created' = <<>>
    /\ ttl' = [o \in Owners |-> Days(0)]
    /\ func_cache' = [o \in Owners |-> EmptyMap]
    /\ attrs' = [o \in Owners |-> EmptyMap]
    /\ recent_save_data' = [o \in Owners |-> NoSnapshot]
    /\ run_function_signatures' = [op \in Ops |-> {}]
    /\ task' = [t \in Tasks |-> IdleTask]
    /\ last' = NoCall
    /\ first' = [o \in Owners |-> EmptyMap]
    /\ failed' = {}
    /\ computed' = [op \in Ops |-> {}]
    /\ batch' = NoBatch
    /\ UNCHANGED <<remote, stats, cache_file, now, calls, disk, cached_function>>

\* ------------------------------------------------- the file and the disk
\* Files that another program left in the place of the document: a document
\* as an owner writes it, text that is no JSON, a JSON array, an object without the entry map, and objects with
\* the entry map whose date of the last save is missing or no date, that have
\* no variables, or that hold an entry without a date or with a str that is
\* no date.
KeyGet == function_signature("get", IntOne)
KeyGetAll == function_signature("get_all", IntOne)
ForeignEntry(v, date) == [value |-> ToJson(v), date |-> date]
ForeignVars == [k \in {"counter"} |-> ToJson(PyInt(1))]

ForeignDoc(kind, date, func, vs) ==
    [exists |-> TRUE, kind |-> kind, func |-> func, vars |-> vs, date |-> date]

ForeignDocs ==
    LET one == Put(EmptyMap, KeyGet, ForeignEntry(PyInt(1), FormatDate(0)))
        all == ForeignEntry(PyList(<<1, 1>>), FormatDate(0))
    IN { ForeignDoc("full", FormatDate(0), one, ForeignVars),
         ForeignDoc("undecodable", FormatDate(0), EmptyMap, EmptyMap),
         ForeignDoc("array", FormatDate(0), EmptyMap, EmptyMap),
         ForeignDoc("nofunc", FormatDate(0), EmptyMap, ForeignVars),
         ForeignDoc("full", NoDateKey, one, ForeignVars),
         ForeignDoc("full", BadDateStr, one, ForeignVars),
         ForeignDoc("novars", FormatDate(0), one, EmptyMap),
         ForeignDoc("full", FormatDate(0),
                    Put(EmptyMap, KeyGet, ForeignEntry(PyInt(1), NoDateKey)),
                    ForeignVars),
         ForeignDoc("full", FormatDate(0),
                    Put(Put(EmptyMap, KeyGet, ForeignEntry(PyInt(1), BadDateStr)),
                        KeyGetAll, all),
                    ForeignVars) }

\* Between two processes, another program writes the file.
Tamper(d) ==
    /\ created = <<>>
    /\ doc # d
    /\ doc' = d
    /\ UNCHANGED <<dynamodb, remote, stats, cache_file, now, alive, created, ttl, func_cache, attrs, recent_save_data,
                   run_function_signatures, task, calls, last, first, failed,
                   computed, batch, disk, cached_function>>

\* The permissions of the cache directory change: open() raises, or works
\* again.
Chmod ==
    /\ disk' = IF disk = "ok" THEN "denied" ELSE "ok"
    /\ UNCHANGED <<dynamodb, remote, stats, cache_file, now, doc, alive, created, ttl, func_cache, attrs,
                   recent_save_data, run_function_signatures, task, calls, last,
                   first, failed, computed, batch, cached_function>>

\* A CachedFunction is made for a call and its function_signature is
\* read: the cached_property computes it and keeps it in the CachedFunction.
ComputeKey ==
    /\ alive[cached_function.owner] /\ ~Busy
    /\ cached_function.signature = NotComputed
    /\ cached_function' = [cached_function EXCEPT !.signature = call_signature(cached_function.owner, cached_function.op, cached_function.inp)]
    /\ UNCHANGED <<dynamodb, remote, stats, cache_file, now, doc, alive, created, ttl, func_cache, attrs,
                   recent_save_data, run_function_signatures, task, calls, last,
                   first, failed, computed, batch, disk>>

\* The program reads owner._json_cache_filename_with_path.
ResolvePath(o) ==
    /\ alive[o] /\ ~Busy
    /\ cache_file' = [cache_file EXCEPT ![o].path =
           json_cache_filename_with_path(cache_file[o].data_id,
                                         cache_file[o].directory)]
    /\ UNCHANGED <<dynamodb, remote, now, doc, alive, created, ttl, func_cache, attrs,
                   recent_save_data, run_function_signatures, task, calls, last,
                   first, failed, computed, batch, disk, cached_function, stats>>

\* __init__ of an owner with a data_id and a directory of its own: it finds
\* the file doc when its path is the path of owner A, and no file otherwise
\* (owner A is the only one that writes).
ConstructAt(o) ==
    LET path(x) == json_cache_filename_with_path(cache_file[x].data_id,
                                                 cache_file[x].directory)
    IN ConstructOver(o, FALSE, Days(1), EmptyMap,
                     IF path(o) = path("A") THEN doc ELSE NoFile)

\* ------------------------------------------------------- specifications
\* One process, one owner: the calls of the wrapped operations, in flight
\* together, with the clock and json_cache_clear.
Next ==
    \/ Tick
    \/ \E c \in BOOLEAN, tt \in OwnerTtls : Construct("A", c, tt, EmptyMap)
    \/ \E op \in Ops : \E inp \in InputsOf(op) : Call("A", op, inp)
    \/ \E t \in Tasks : \E v \in Outcomes(task[t].op, task[t].inp) : Return(t, v)
    \/ \E t \in Tasks : Raise(t)
    \/ Clear("A", TRUE, <<>>)
    \/ \E op \in Ops : Clear("A", FALSE, Name(op))

Spec == Init /\ [][Next]_vars

\* Processes that follow each other, and two owners in one process: the file
\* written by one owner is loaded by the next.  The calls are made one at a
\* time, with one argument list.
NextPersist ==
    \/ Tick
    \/ \E o \in Owners, c \in BOOLEAN : Construct(o, c, Days(1), EmptyMap)
    \/ \E o \in Owners, op \in Ops :
           (\A t \in Tasks : ~Running(t)) /\ Call(o, op, IntOne)
    \/ \E t \in Tasks : \E v \in Outcomes(task[t].op, task[t].inp) : Return(t, v)
    \/ \E t \in Tasks : Raise(t)
    \/ Exit

SpecPersist == Init /\ [][NextPersist]_vars

\* The attributes of two owners in one process and the variable snapshot of
\* the file.
NextAttrs ==
    \/ Tick
    \/ \E o \in Owners, c \in BOOLEAN, tt \in OwnerTtls, pre \in PreAttrs :
           Construct(o, c, tt, pre)
    \/ \E o \in Owners, k \in UserAttrs, v \in UserValues : SetAttr(o, k, v)
    \/ \E o \in Owners : Save(o)

SpecAttrs == Init /\ [][NextAttrs]_vars

\* One owner, with files that another program wrote and a directory that
\* cannot be read or written.  The calls are made one at a time, with one
\* argument list.
FaultTtls == {Days(1), Delta(1)}

NextFaults ==
    \/ Tick
    \/ \E d \in ForeignDocs : Tamper(d)
    \/ Chmod
    \/ \E tt \in FaultTtls : Construct("A", FALSE, tt, EmptyMap)
    \/ \E op \in Ops : (\A t \in Tasks : ~Running(t)) /\ Call("A", op, IntOne)
    \/ \E t \in Tasks : \E v \in Outcomes(task[t].op, task[t].inp) : Return(t, v)
    \/ \E t \in Tasks : Raise(t)
    \/ Save("A")

SpecFaults == Init /\ [][NextFaults]_vars

\* The keys: the signature of one call, computed on an owner in any of its
\* states, with calls of get made on the first owner one at a time.
InitKeys ==
    /\ InitOwners
    /\ cache_file = SharedFile
    /\ cached_function \in {KeyCall(o, op, inp) : o \in Owners, op \in Ops, inp \in KeyArgs}

NextKeys ==
    \/ Tick
    \/ \E o \in Owners : Construct(o, FALSE, Days(1), EmptyMap)
    \/ (\A t \in Tasks : ~Running(t)) /\ Call("A", "get", IntOne)
    \/ \E t \in Tasks : \E v \in Outcomes(task[t].op, task[t].inp) : Return(t, v)
    \/ \E t \in Tasks : Raise(t)
    \/ ComputeKey

SpecKeys == InitKeys /\ [][NextKeys]_vars

\* One owner, with results and attributes that cannot be serialized.
ValueInputs == {IntOne, SetInput, CyclicInput}
ValueAttrs == {PyInt(1), PySet(<<1>>), PyCyclic}

NextValues ==
    \/ Tick
    \/ Construct("A", FALSE, Days(1), EmptyMap)
    \/ \E inp \in ValueInputs :
           (\A t \in Tasks : ~Running(t)) /\ Call("A", "get", inp)
    \/ \E t \in Tasks : \E v \in Outcomes(task[t].op, task[t].inp) : Return(t, v)
    \/ \E t \in Tasks : Raise(t)
    \/ \E v \in ValueAttrs : SetAttr("A", "counter", v)
    \/ Save("A")

SpecValues == Init /\ [][NextValues]_vars

\* One owner with attributes and stored results, within the TTL of the
\* results: json_cache_clear with the names a program can pass,
\* json_cache_stats and json_cache_save.
ClearNames == {Name(op) : op \in Ops} \cup {Name(op) \o <<"(">> : op \in Ops}

ClearInputs(op) ==
    IF op = "get" THEN {IntOne, [args |-> <<PyItem(2)>>, kwargs |-> <<>>]}
    ELSE {IntOne}

NextClear ==
    \/ Construct("A", FALSE, Days(1), EmptyMap)
    \/ \E op \in Ops : \E inp \in ClearInputs(op) :
           (\A t \in Tasks : ~Running(t)) /\ Call("A", op, inp)
    \/ \E t \in Tasks : \E v \in Outcomes(task[t].op, task[t].inp) : Return(t, v)
    \/ \E t \in Tasks : Raise(t)
    \/ SetAttr("A", "counter", PyInt(1))
    \/ Save("A")
    \/ Clear("A", TRUE, <<>>)
    \/ \E name \in ClearNames : Clear("A", FALSE, name)
    \/ Stats("A")

SpecClear == Init /\ [][NextClear]_vars

\* Processes that follow each other with one owner that has an attribute, its
\* constructor called with clear_cache or without.  The calls are made one at
\* a time, with one argument list.
NextFlag ==
    \/ Tick
    \/ \E c \in BOOLEAN : Construct("A", c, Days(1), EmptyMap)
    \/ SetAttr("A", "counter", PyInt(1))
    \/ \E op \in Ops : (\A t \in Tasks : ~Running(t)) /\ Call("A", op, IntOne)
    \/ \E t \in Tasks : \E v \in Outcomes(task[t].op, task[t].inp) : Return(t, v)
    \/ \E t \in Tasks : Raise(t)
    \/ Exit

SpecFlag == Init /\ [][NextFlag]_vars

\* The file names: two owners with a data_id and a directory each.  The
\* first makes calls and saves; the second is constructed after it.
LongIdLen == 200
IdOfLen(n, d) == [i \in 1..n |-> IF i = n THEN Digit(d) ELSE "a"]
DataIds ==
    {SharedId, <<"M", "y", "_", "i", "d">>, <<"m", "y", " ", "i", "d">>}
    \cup {IdOfLen(n, d) : n \in (MinIdLen..MaxIdLen) \cup {LongIdLen}, d \in {1, 2}}
Directories == {<<>>, TestCache, TestCache \o <<"/">>}

InitFiles ==
    /\ InitOwners
    /\ cached_function = KeyCall("A", "get", IntOne)
    /\ \E a \in DataIds, dir \in Directories :
          \E b \in {a, SharedId, IdOfLen(LongIdLen, 1)} :
             cache_file = [o \in Owners |->
                 [data_id |-> IF o = "A" THEN a ELSE b, directory |-> dir,
                  path |-> NoPath]]

NextFiles ==
    \/ \E o \in Owners : ConstructAt(o)
    \/ \E o \in Owners : ResolvePath(o)
    \/ (\A t \in Tasks : ~Running(t)) /\ Call("A", "get", IntOne)
    \/ \E t \in Tasks : \E v \in Outcomes(task[t].op, task[t].inp) : Return(t, v)
    \/ \E t \in Tasks : Raise(t)

SpecFiles == InitFiles /\ [][NextFiles]_vars

\* The coroutines of the calls of the async operation get on one event loop,
\* on an owner with a status map or without one.
StatusPre == {EmptyMap, [k \in {"cache_status"} |-> PyDict(EmptyMap)]}
AsyncInputs == {IntOne, [args |-> <<PyItem(2)>>, kwargs |-> <<>>]}

NextAsync ==
    \/ Tick
    \/ \E pre \in StatusPre : Construct("A", FALSE, Delta(1), pre)
    \/ \E inp \in AsyncInputs : Enter("A", "get", inp)
    \/ \E t \in Tasks : Lookup(t)
    \/ \E t \in Tasks : \E v \in Outcomes(task[t].op, task[t].inp) : Store(t, v)
    \/ \E t \in Tasks : LoopFreeFor(t) /\ Raise(t)
    \/ \E t \in Tasks : Persist(t)
    \/ \E t \in Tasks : AppendKey(t)
    \/ \E t \in Tasks : Finish(t)

SpecAsync == Init /\ [][NextAsync]_vars

\* The scheduling of the coroutines.  The statements between two awaits run
\* without a break, so each of them is taken once it can be; the operation of
\* a call in flight returns or raises in the end, and the event loop, which
\* runs what is ready in the order in which it became ready, resumes the
\* coroutine then, however often other coroutines ran in between.
Resumes(t) ==
    \/ \E v \in Outcomes(task[t].op, task[t].inp) : Store(t, v)
    \/ LoopFreeFor(t) /\ Raise(t)

FairLoop ==
    \A t \in Tasks :
        /\ WF_vars(Lookup(t))
        /\ SF_vars(Resumes(t))
        /\ WF_vars(Persist(t))
        /\ WF_vars(AppendKey(t))
        /\ WF_vars(Finish(t))

SpecAsyncFair == Init /\ [][NextAsync]_vars /\ FairLoop

\* One owner with a status map or without one: the calls of the wrapped
\* operations, in flight together, with the clock.
NextStatus ==
    \/ Tick
    \/ \E pre \in StatusPre : Construct("A", FALSE, Delta(1), pre)
    \/ \E op \in Ops : Call("A", op, IntOne)
    \/ \E t \in Tasks : \E v \in Outcomes(task[t].op, task[t].inp) : Return(t, v)
    \/ \E t \in Tasks : Raise(t)

SpecStatus == Init /\ [][NextStatus]_vars

\* One owner and one call of get written in five ways, the calls made one at
\* a time.
NextKwargs ==
    \/ Tick
    \/ Construct("A", FALSE, Days(1), EmptyMap)
    \/ \E inp \in KwInputs :
           (\A t \in Tasks : ~Running(t)) /\ Call("A", "get", inp)
    \/ \E t \in Tasks : \E v \in Outcomes(task[t].op, task[t].inp) : Return(t, v)
    \/ \E t \in Tasks : Raise(t)

SpecKwargs == Init /\ [][NextKwargs]_vars

\* What the program assigns to owner.data: a short str, a str of as many
\* bytes as the threshold that packs well, and data whose packed bytes still
\* exceed the size of an item.
HelloWorld == PyStr(<<"H", "i">>)
LargeData == PyBigStr(DynamodbCompressThreshold, 512)
OversizedData == PyBigStr(DynamodbMaxSize + 1, DynamodbMaxSize + 1)
DataValues == {HelloWorld, LargeData, OversizedData}

\* Processes that follow each other, each with one owner: without a table,
\* or with a table whose store is enabled or not.  The program assigns
\* owner.data, calls get one call at a time and saves the owner.
NextRemote ==
    \/ Construct("A", FALSE, Days(1), EmptyMap)
    \/ \E en \in BOOLEAN : ConstructRemote("A", Days(1), EmptyMap, en)
    \/ \E v \in DataValues : SetAttr("A", "data", v)
    \/ (\A t \in Tasks : ~Running(t)) /\ Call("A", "get", IntOne)
    \/ \E t \in Tasks : \E v \in Outcomes(task[t].op, task[t].inp) : Return(t, v)
    \/ \E t \in Tasks : Raise(t)
    \/ Save("A")
    \/ Exit

SpecRemote == Init /\ [][NextRemote]_vars

\* Data that bring the snapshot of an owner without entries to the threshold
\* and its packed bytes to the size of an item: with one entry they are
\* above.
ThresholdData == PyBigStr(DynamodbCompressThreshold - 66, 512)
CeilingData == PyBigStr(DynamodbMaxSize, DynamodbMaxSize - 64)
SizedValues == DataValues \cup {ThresholdData, CeilingData}

\* One owner with an enabled store: the program assigns owner.data, calls
\* get one call at a time and saves the owner.
NextSizes ==
    \/ ConstructRemote("A", Days(1), EmptyMap, TRUE)
    \/ \E v \in SizedValues : SetAttr("A", "data", v)
    \/ (\A t \in Tasks : ~Running(t)) /\ Call("A", "get", IntOne)
    \/ \E t \in Tasks : \E v \in Outcomes(task[t].op, task[t].inp) : Return(t, v)
    \/ \E t \in Tasks : Raise(t)
    \/ Save("A")

SpecSizes == Init /\ [][NextSizes]_vars

\* Processes that follow each other, each with one owner that loads what it
\* finds: without a table, or with a table whose store is enabled or not.
\* The owner calls get and is saved; between two processes the clock may
\* advance and the local file may be gone, as on another machine.
NextTiers ==
    \/ Tick
    \/ Construct("A", FALSE, Days(1), EmptyMap)
    \/ \E en \in BOOLEAN : ConstructLoading("A", Days(1), EmptyMap, en)
    \/ SetAttr("A", "data", HelloWorld)
    \/ (\A t \in Tasks : ~Running(t)) /\ Call("A", "get", IntOne)
    \/ \E t \in Tasks : \E v \in Outcomes(task[t].op, task[t].inp) : Return(t, v)
    \/ \E t \in Tasks : Raise(t)
    \/ Save("A")
    \/ Exit
    \/ Tamper(NoFile)

SpecTiers == Init /\ [][NextTiers]_vars

\* One owner, calls of the async operation in flight together, and
\* json_cache_clear() without a name while they are in flight.
NextRace ==
    \/ Tick
    \/ Construct("A", FALSE, Days(1), EmptyMap)
    \/ \E inp \in AsyncInputs : Call("A", "get", inp)
    \/ \E t \in Tasks : \E v \in Outcomes(task[t].op, task[t].inp) : Return(t, v)
    \/ \E t \in Tasks : Raise(t)
    \/ Clear("A", TRUE, <<>>)

SpecRace == Init /\ [][NextRace]_vars

\* ================================================================ claims
\* the call of the step was answered from the entry map / was passed on to the
\* wrapped operation
Answered == last'.kind = "hit" /\ task' = task
Invoked == task'[FreeSlot].pc = "running" /\ last' = last

\* the time-to-live in force for a call of op on owner o, in ticks
EffectiveTtl(op, o) ==
    LET t == IF WrapperTtl(op)[1] = "None" THEN ttl[o] ELSE WrapperTtl(op)
    IN IF t[1] = "days" THEN t[2] * DayTicks ELSE t[2]

\* a call of op(inp) on o that C1 covers: a call with these arguments has
\* completed on o, no clear since, and the call is made within the TTL of
\* that first call's completion
Covered(o, op, inp) ==
    LET sig == function_signature(op, inp)
    IN /\ sig \in DOMAIN first[o]
       /\ first[o][sig].inp = inp
       /\ first[o][sig].date + EffectiveTtl(op, o) > now

\* C1 as stated: a covered call does not invoke the operation and returns the
\* value of the first call.
C1Original ==
    [][\A o \in Owners, op \in Ops : \A inp \in InputsOf(op) :
          (Call(o, op, inp) /\ Covered(o, op, inp))
              => (Answered
                  /\ last'.value = first[o][function_signature(op, inp)].value)]_vars

\* C1: a covered call does not invoke the operation and returns the value
\* stored under its key; that is the value of the first call unless a call
\* with the same key that was in flight when the first one completed has
\* returned since and has overwritten the entry.  A stored None is returned
\* like any other value.
C1Idempotent ==
    [][\A o \in Owners, op \in Ops : \A inp \in InputsOf(op) :
          (Call(o, op, inp) /\ Covered(o, op, inp))
              => LET sig == function_signature(op, inp)
                 IN /\ Answered
                    /\ last'.value = func_cache[o][sig].value
                    /\ ~first[o][sig].over
                           => last'.value = first[o][sig].value]_vars

\* a later call with the arguments of a call that returned None was answered
\* with None from the entry map
C1Witness ==
    /\ last.kind = "hit" /\ last.value = PyNone
    /\ LET sig == function_signature(last.op, last.inp)
       IN /\ sig \in DOMAIN first[last.owner]
          /\ first[last.owner][sig].inp = last.inp
          /\ first[last.owner][sig].value = PyNone
          /\ ~first[last.owner][sig].over

\* C2 as stated: an operation that raises leaves the entry map as it was and
\* the exception reaches the caller, and the next call with the same
\* arguments invokes the operation again.
C2Original ==
    [][/\ \A t \in Tasks :
             Raise(t) => (func_cache' = func_cache /\ last'.value = Raised)
       /\ \A o \in Owners, op \in Ops : \A inp \in InputsOf(op) :
             (Call(o, op, inp) /\ AfterRaise(o, op, inp) # "no") => Invoked]_vars

\* C2: an operation that raises leaves the entry map as it was and the
\* exception reaches the caller; the next call with the same arguments
\* invokes the operation again unless another call with the same key has
\* returned since the failed call was made.
C2ExceptionsNotCached ==
    [][/\ \A t \in Tasks :
             Raise(t) => (func_cache' = func_cache /\ last'.value = Raised)
       /\ \A o \in Owners, op \in Ops : \A inp \in InputsOf(op) :
             (Call(o, op, inp) /\ AfterRaise(o, op, inp) = "clean") => Invoked]_vars

\* a call raised, the next call with its arguments was passed on to the
\* operation and raised again, and no entry was stored under the key
C2Witness ==
    /\ last.kind = "raise" /\ last.after = "clean"
    /\ function_signature(last.op, last.inp) \notin DOMAIN func_cache[last.owner]

\* the batch is complete with this step
BatchDone == batch.phase = "open" /\ batch'.phase = "done"

\* a call of get(inp) on the owner of a completed batch that repeats one of
\* its calls while what was stored is within its TTL
Reissue(o, inp) ==
    LET sig == function_signature("get", inp)
    IN /\ batch.phase = "done" /\ batch.owner = o /\ inp \in batch.inps
       /\ sig \in DOMAIN first[o] => first[o][sig].date + EffectiveTtl("get", o) > now

\* C3 as stated: N calls in flight together with pairwise distinct arguments
\* make N invocations and leave N entries, and a call that repeats one of
\* them makes no further invocation.
C3Original ==
    [][/\ BatchDone =>
             /\ batch.ninv = Cardinality(batch.inps)
             /\ Cardinality(DOMAIN func_cache'[batch.owner]) = Cardinality(batch.inps)
       /\ \A o \in Owners, inp \in Inputs :
             (Call(o, "get", inp) /\ Reissue(o, inp)) => Answered]_vars

\* the string forms of the arguments of the batch are pairwise distinct
DistinctForms ==
    \A i, j \in batch.inps :
        function_name_with_args("get", i) = function_name_with_args("get", j) => i = j

\* C3: N calls in flight together whose arguments have pairwise distinct
\* string forms make N invocations and leave N entries, and a call that
\* repeats one of them within the TTL makes no further invocation.
C3ConcurrentDistinct ==
    [][/\ (BatchDone /\ DistinctForms) =>
             /\ batch.ninv = Cardinality(batch.inps)
             /\ Cardinality(DOMAIN func_cache'[batch.owner]) = Cardinality(batch.inps)
       /\ \A o \in Owners, inp \in Inputs :
             (Call(o, "get", inp) /\ Reissue(o, inp)) => Answered]_vars

\* two calls with distinct string forms were in flight together, both
\* returned, and one of them was repeated and answered from the entry map
C3Witness ==
    /\ batch.phase = "done" /\ Cardinality(batch.inps) >= 2 /\ DistinctForms
    /\ batch.ninv = Cardinality(batch.inps)
    /\ last.kind = "hit" /\ last.owner = batch.owner /\ last.op = "get"
    /\ last.inp \in batch.inps

\* the values the operation of key k can compute
ValuesOf(k) ==
    UNION {Outcomes(op, inp) \ {Raised} :
              <<op, inp>> \in {x \in Ops \X Inputs :
                                   /\ x[2] \in InputsOf(x[1])
                                   /\ function_signature(x[1], x[2]) = k}}

\* C4: with calls of several argument lists in flight together, a call that
\* returns stores its own result under its own key, hands that result to its
\* caller and touches no other entry; so no entry under a key ever holds a
\* value computed for another key.
C4NoCrossTalk ==
    /\ [](\A o \in Owners : \A k \in DOMAIN func_cache[o] :
             func_cache[o][k].value \in ValuesOf(k))
    /\ [][\A t \in Tasks : \A v \in Outcomes(task[t].op, task[t].inp) :
             Return(t, v) =>
                 LET o == task[t].owner
                     k == function_signature(task[t].op, task[t].inp)
                 IN /\ DOMAIN func_cache'[o] = DOMAIN func_cache[o] \cup {k}
                    /\ func_cache'[o][k] = [value |-> v, date |-> now]
                    /\ last'.value = v
                    /\ \A j \in DOMAIN func_cache[o] \ {k} :
                          func_cache'[o][j] = func_cache[o][j]]_vars

\* calls with different keys were in flight together and have returned: each
\* key holds a result of its own arguments
C4Witness ==
    /\ batch.phase = "done" /\ Cardinality(batch.inps) >= 2 /\ DistinctForms
    /\ \A i \in batch.inps :
          /\ function_signature("get", i) \in DOMAIN func_cache[batch.owner]
          /\ func_cache[batch.owner][function_signature("get", i)].value
                 \in Outcomes("get", i)

\* C5: two calls with identical arguments that find no usable entry are both
\* passed on to the operation, the second although the first is in flight;
\* each stores its result when it returns, so the entry holds the value and
\* the time of the one that returned last, and a later call is answered with
\* that value.
C5LastWriteWins ==
    [][/\ \A o \in Owners, op \in Ops : \A inp \in InputsOf(op) :
             (/\ Call(o, op, inp)
              /\ ~IsHit(o, op, function_signature(op, inp))
              /\ \E u \in Tasks : /\ Running(u) /\ task[u].owner = o
                                   /\ task[u].op = op /\ task[u].inp = inp)
                 => Invoked
       /\ \A t \in Tasks : \A v \in Outcomes(task[t].op, task[t].inp) :
             (Return(t, v) /\ task[t].twin)
                 => func_cache'[task[t].owner]
                        [function_signature(task[t].op, task[t].inp)]
                    = [value |-> v, date |-> now]
       /\ \A o \in Owners, op \in Ops : \A inp \in InputsOf(op) :
             (/\ Call(o, op, inp) /\ Answered
              /\ last.kind = "miss" /\ last.twin
              /\ last.owner = o /\ last.op = op /\ last.inp = inp)
                 => last'.value = last.value]_vars

\* of two calls with the same arguments in flight together the one that
\* returned last returned another value than the first, and the entry holds
\* the value of the last
C5Witness ==
    /\ last.kind = "miss" /\ last.twin
    /\ LET k == function_signature(last.op, last.inp)
       IN /\ first[last.owner][k].over
          /\ first[last.owner][k].inp = last.inp
          /\ first[last.owner][k].value # last.value
          /\ func_cache[last.owner][k].value = last.value

\* an entry is stored under the key of op(inp) on o and its storedAt plus the
\* effective TTL is strictly later than the current time
Fresh(o, op, inp) ==
    LET k == function_signature(op, inp)
    IN /\ k \in DOMAIN func_cache[o]
       /\ func_cache[o][k].date + EffectiveTtl(op, o) > now

\* C6: a call is answered from the entry map exactly when a fresh entry is
\* stored under its key (and, for a wrapper with the clear flag, the key has
\* been computed in this process); otherwise the operation is invoked, and
\* when it returns the entry is overwritten with the new value and the
\* current time.  An entry is not fresh at the instant storedAt + TTL, so
\* with a TTL of zero no entry is ever used.
C6StrictTtl ==
    [][/\ \A o \in Owners, op \in Ops : \A inp \in InputsOf(op) :
             Call(o, op, inp) =>
                 /\ (Fresh(o, op, inp) /\ ~ClearFlag(op)) => Answered
                 /\ ~Fresh(o, op, inp) => Invoked
                 /\ EffectiveTtl(op, o) = 0 => Invoked
       /\ \A t \in Tasks : \A v \in Outcomes(task[t].op, task[t].inp) :
             Return(t, v) =>
                 func_cache'[task[t].owner]
                     [function_signature(task[t].op, task[t].inp)]
                 = [value |-> v, date |-> now]]_vars

\* on an owner with a TTL of zero a call found the entry stored at the very
\* instant of the call, invoked the operation and overwrote the entry
C6Witness ==
    /\ last.kind = "miss" /\ last.op = "get" /\ ttl[last.owner] = Days(0)
    /\ LET k == function_signature(last.op, last.inp)
       IN /\ first[last.owner][k].over
          /\ first[last.owner][k].date = now
          /\ ~last.twin
          /\ func_cache[last.owner][k] = [value |-> last.value, date |-> now]

\* wrapped calls whose string forms differ have different keys
KeysDistinct ==
    \A x, y \in Ops \X KeyInputs :
        function_name_with_args(x[1], x[2]) # function_name_with_args(y[1], y[2])
            => function_signature(x[1], x[2]) # function_signature(y[1], y[2])

\* what json.dump writes for an entry
DumpEntry(e) == [value |-> ToJson(e.value), date |-> FormatDate(e.date)]

\* C7: calls whose (name, positional arguments, keyword arguments) differ in
\* string form have different keys, whatever owner is constructed to take
\* them; a call that is answered from the entry map gets the entry of its own
\* key, a call that returns leaves every entry under another key as it was,
\* and the document saved on its return holds the new entry and every other
\* serializable entry of the owner.
C7IndependentKeys ==
    [][/\ (\E o \in Owners, c \in BOOLEAN, tt \in OwnerTtls :
              Construct(o, c, tt, EmptyMap)) => KeysDistinct
       /\ \A o \in Owners, op \in Ops : \A inp \in InputsOf(op) :
            (Call(o, op, inp) /\ Answered)
                => last'.value = func_cache[o][function_signature(op, inp)].value
       /\ \A t \in Tasks : \A v \in Outcomes(task[t].op, task[t].inp) :
            Return(t, v) =>
                LET o == task[t].owner
                    k == function_signature(task[t].op, task[t].inp)
                IN /\ \A j \in DOMAIN func_cache[o] \ {k} :
                         /\ j \in DOMAIN func_cache'[o]
                         /\ func_cache'[o][j] = func_cache[o][j]
                   /\ \A j \in DOMAIN func_cache'[o] :
                         is_jsonable(func_cache'[o][j].value)
                             => /\ j \in DOMAIN doc'.func
                                /\ doc'.func[j] = DumpEntry(func_cache'[o][j])]_vars

\* two calls with different string forms have returned: their entries stand
\* side by side in the entry map and in the document
C7Witness ==
    \E o \in Owners : \E j, k \in DOMAIN func_cache[o] :
        /\ j # k
        /\ {j, k} \subseteq DOMAIN doc.func
        /\ doc.func[j] = DumpEntry(func_cache[o][j])
        /\ doc.func[k] = DumpEntry(func_cache[o][k])
        /\ last.kind = "miss" /\ function_signature(last.op, last.inp) = k

\* the step constructs owner b without clear-on-init
Constructs(b) == Construct(b, FALSE, Days(1), EmptyMap)

\* owner a has computed the entry of key k and the document holds it as a
\* saved it
SavedBy(a, k) ==
    /\ alive[a] /\ k \in DOMAIN first[a] /\ k \in DOMAIN func_cache[a]
    /\ doc.exists /\ k \in DOMAIN doc.func
    /\ doc.func[k] = DumpEntry(func_cache[a][k])

\* owner b makes its first call of op(inp), on an entry that it has loaded
\* and that is fresh
FirstCallOnLoaded(b, op, inp) ==
    LET k == function_signature(op, inp)
    IN /\ Call(b, op, inp)
       /\ k \notin DOMAIN first[b]
       /\ Fresh(b, op, inp)

\* C8 as stated: an owner constructed after A has computed and saved an entry
\* holds that entry with the same value and storedAt, and its first call with
\* those arguments within the TTL is answered from the entry map.
C8Original ==
    [][\A a, b \in Owners : \A op \in Ops :
          LET k == function_signature(op, IntOne)
          IN /\ (Constructs(b) /\ SavedBy(a, k))
                    => (k \in DOMAIN func_cache'[b]
                        /\ func_cache'[b][k] = func_cache[a][k])
             /\ FirstCallOnLoaded(b, op, IntOne) => Answered]_vars

\* a value after json.dump and json.load
JsonRoundTrip(x) == IF x[1] = "tuple" THEN PyList(x[2]) ELSE x

\* C8: an owner constructed after A has computed and saved an entry holds
\* that entry with the same storedAt and with the value as JSON gives it back
\* (a tuple comes back as a list); its first call with those arguments within
\* the TTL is answered from the entry map, unless the wrapper has the clear
\* flag and the key has not been computed in this process.
C8EntriesPersist ==
    [][\A a, b \in Owners : \A op \in Ops :
          LET k == function_signature(op, IntOne)
          IN /\ (Constructs(b) /\ SavedBy(a, k))
                    => (k \in DOMAIN func_cache'[b]
                        /\ func_cache'[b][k].value = JsonRoundTrip(func_cache[a][k].value)
                        /\ func_cache'[b][k].date = func_cache[a][k].date)
             /\ (FirstCallOnLoaded(b, op, IntOne)
                 /\ (ClearFlag(op) => k \in computed[op]))
                    => (Answered /\ last'.value = func_cache[b][k].value)]_vars

\* owner B, constructed after A computed and saved, answered its first call
\* from the entry it loaded, whose storedAt is that of A's entry
C8Witness ==
    /\ alive["A"] /\ alive["B"]
    /\ last.kind = "hit" /\ last.owner = "B" /\ last.op = "get"
    /\ LET k == function_signature(last.op, last.inp)
       IN /\ k \in DOMAIN recent_save_data["B"].func
          /\ k \in DOMAIN first["A"]
          /\ func_cache["B"][k] = func_cache["A"][k]
          /\ last.value = func_cache["A"][k].value

\* the variable snapshot of the document is the one owner a saves: it holds
\* the attributes of a that a does not exclude, with their values
SavedVarsBy(a) ==
    /\ alive[a] /\ doc.exists
    /\ \A k \in DOMAIN doc.vars :
          k \in DOMAIN attrs[a] /\ doc.vars[k] = ToJson(attrs[a][k])
    /\ \A k \in DOMAIN attrs[a] \ excluded(attrs[a]) : k \in DOMAIN doc.vars

\* the step constructs owner b, whose subclass has set the attributes pre,
\* without clear-on-init and within tt of the last save of the document
ConstructsWithin(b, tt, pre) ==
    /\ Construct(b, FALSE, tt, pre)
    /\ doc.exists /\ ParseDate(doc.date) + tt[2] * DayTicks > now

\* attribute k of b is after the construction what the subclass made it
NotRestored(b, k, pre) ==
    IF k \in DOMAIN pre THEN k \in DOMAIN attrs'[b] /\ attrs'[b][k] = pre[k]
    ELSE k \notin DOMAIN attrs'[b]

\* C9 as stated: an owner constructed within its TTL of A's save has every
\* saved attribute that is not excluded set to A's value, and no attribute
\* named in its excluded list is restored from the document.
C9Original ==
    [][\A a, b \in Owners, tt \in OwnerTtls, pre \in PreAttrs :
          (ConstructsWithin(b, tt, pre) /\ SavedVarsBy(a))
              => /\ \A k \in DOMAIN doc.vars \ excluded(pre) :
                       k \in DOMAIN attrs'[b] /\ attrs'[b][k] = attrs[a][k]
                 /\ \A k \in excluded(pre) : NotRestored(b, k, pre)]_vars

\* C9: an owner constructed within its TTL of A's save has every attribute of
\* the document set to A's value; an attribute that A excludes is not in the
\* document, and the new owner keeps what its subclass made of it.
C9AttributesPersist ==
    [][\A a, b \in Owners, tt \in OwnerTtls, pre \in PreAttrs :
          (ConstructsWithin(b, tt, pre) /\ SavedVarsBy(a))
              => /\ \A k \in DOMAIN doc.vars :
                       k \in DOMAIN attrs'[b] /\ attrs'[b][k] = attrs[a][k]
                 /\ \A k \in excluded(attrs[a]) :
                       k \notin DOMAIN doc.vars /\ NotRestored(b, k, pre)]_vars

\* owner B was constructed after A saved: it has A's counter, and not the
\* temp_data that A excludes and has set
C9Witness ==
    /\ alive["A"] /\ alive["B"]
    /\ "temp_data" \in excluded(attrs["A"])
    /\ "temp_data" \in DOMAIN attrs["A"] /\ "temp_data" \notin DOMAIN attrs["B"]
    /\ "counter" \in DOMAIN recent_save_data["B"].vars
    /\ "counter" \in DOMAIN attrs["A"]
    /\ recent_save_data["B"].vars["counter"] = attrs["A"]["counter"]
    /\ attrs["B"]["counter"] = PyInt(1)

\* C10: a call of a wrapper with the clear flag whose key has not been
\* computed in this process invokes the operation, whatever is stored; once
\* a call of the key has returned in this process a call is answered from a
\* fresh entry and invokes the operation otherwise.  A call that raised has
\* computed nothing, so the next call still invokes the operation.
C10ClearFlag ==
    [][\A o \in Owners, op \in Ops :
          LET k == function_signature(op, IntOne)
          IN (Call(o, op, IntOne) /\ ClearFlag(op))
                 => /\ k \notin computed[op] => Invoked
                    /\ (k \in computed[op] /\ Fresh(o, op, IntOne)) => Answered
                    /\ (k \in computed[op] /\ ~Fresh(o, op, IntOne)) => Invoked
                    /\ AfterRaise(o, op, IntOne) = "clean" => Invoked]_vars

\* an owner loaded an entry of get_all that is still fresh; its first call
\* raised, and its next call invoked the operation again and returned
C10Witness ==
    /\ last.kind = "miss" /\ ClearFlag(last.op) /\ last.after = "clean"
    /\ LET k == function_signature(last.op, last.inp)
           loaded == recent_save_data[last.owner].func
       IN /\ k \in DOMAIN loaded
          /\ loaded[k].date + EffectiveTtl(last.op, last.owner) > now

\* the save of owner o, with the entry map cache, writes the file at this
\* instant: the snapshot can be built, it differs from the one recorded at
\* the load, and the file can be opened
SaveWrites(o, cache) ==
    /\ ~json_cache_data_raises(cache, attrs[o])
    /\ recent_save_data[o] # json_cache_data(cache, attrs[o], now)
    /\ disk = "ok"

\* C11 as the specification states it: whenever a missed call has returned
\* with a JSON-serializable value, the document has been rewritten with a
\* snapshot that contains the new entry.
C11Original ==
    [][\A t \in Tasks : \A v \in Outcomes(task[t].op, task[t].inp) :
          (Return(t, v) /\ is_jsonable(v))
              => /\ doc'.exists /\ doc'.kind = "full"
                 /\ doc'.date = FormatDate(now)
                 /\ store_key(t) \in DOMAIN doc'.func
                 /\ doc'.func[store_key(t)] = DumpEntry([value |-> v, date |-> now])]_vars

\* C11: on a miss the operation is invoked first, and nothing is written
\* while it runs; when it returns, the entry (value, now) is written into the
\* owner's map, the owner is saved with that entry in the map, the key is
\* appended to the wrapper's list and the value is returned.  When the save
\* writes the file (the snapshot can be built, is not the one recorded at the
\* load, and the file can be opened), the document is the snapshot of this
\* instant and holds the new entry if its value is JSON-serializable.
C11OrderOfEffects ==
    [][/\ \A op \in Ops :
             (Call("A", op, IntOne) /\ Invoked)
                 => UNCHANGED <<func_cache, doc, run_function_signatures>>
       /\ \A t \in Tasks : \A v \in Outcomes(task[t].op, task[t].inp) :
             Return(t, v)
                 => LET o == task[t].owner
                        k == function_signature(task[t].op, task[t].inp)
                    IN /\ func_cache'[o] = Put(func_cache[o], k,
                                               [value |-> v, date |-> now])
                       /\ k \in run_function_signatures'[task[t].op]
                       /\ last'.kind = "miss" /\ last'.value = v
                       /\ IF SaveWrites(o, func_cache'[o])
                          THEN /\ doc'.exists /\ doc'.kind = "full"
                               /\ doc'.date = FormatDate(now)
                               /\ is_jsonable(v)
                                      => /\ k \in DOMAIN doc'.func
                                         /\ doc'.func[k] = DumpEntry(
                                                [value |-> v, date |-> now])
                               /\ ~is_jsonable(v) => k \notin DOMAIN doc'.func
                          ELSE doc' = doc]_vars

\* a missed call has returned on an owner that loaded another entry: the file
\* was rewritten at this instant and holds the call's entry next to it
C11Witness ==
    /\ last.kind = "miss" /\ disk = "ok"
    /\ LET k == function_signature(last.op, last.inp)
       IN /\ k \in DOMAIN func_cache[last.owner]
          /\ func_cache[last.owner][k] = [value |-> last.value, date |-> now]
          /\ k \in run_function_signatures[last.op]
          /\ doc.exists /\ doc.date = FormatDate(now)
          /\ k \in DOMAIN doc.func
          /\ doc.func[k] = DumpEntry(func_cache[last.owner][k])
          /\ Cardinality(DOMAIN doc.func) = 2

\* the file cannot be read: open() raises, there is no file, or its text is
\* no JSON
Unreadable == disk = "denied" \/ ~doc.exists \/ doc.kind = "undecodable"

\* C12: a failure to read or to write the file never leaves the owner.  The
\* construction of an owner whose file is missing, cannot be opened or is no
\* JSON ends normally with an empty entry map and no attribute set; a missed
\* call whose save cannot open the file still returns the value of the
\* operation and keeps the entry in memory, and the file stays as it was.
C12IoFailuresSwallowed ==
    [][/\ \A tt \in FaultTtls :
             (Construct("A", FALSE, tt, EmptyMap) /\ Unreadable)
                 => /\ alive'["A"]
                    /\ func_cache'["A"] = EmptyMap /\ attrs'["A"] = EmptyMap
                    /\ doc' = doc
       /\ \A t \in Tasks : \A v \in Outcomes(task[t].op, task[t].inp) :
             (Return(t, v) /\ disk = "denied")
                 => LET k == function_signature(task[t].op, task[t].inp)
                    IN /\ last'.kind = "miss" /\ last'.value = v
                       /\ k \in DOMAIN func_cache'[task[t].owner]
                       /\ func_cache'[task[t].owner][k] = [value |-> v, date |-> now]
                       /\ doc' = doc]_vars

\* an owner constructed although the file could not be opened has answered a
\* call whose save failed: the value was returned, the entry is in memory
\* and there is no file
C12Witness ==
    /\ alive["A"] /\ ~doc.exists /\ disk = "denied"
    /\ last.kind = "miss" /\ is_jsonable(last.value)
    /\ LET k == function_signature(last.op, last.inp)
       IN /\ k \in DOMAIN func_cache["A"]
          /\ func_cache["A"][k].value = last.value

\* C13: whatever the file held when the owner was constructed, no call of a
\* wrapped operation ends with an error raised by the wrapper itself: it
\* returns a value or the operation's own exception.
C13DegradeNeverCrash == last.kind # "crash"

\* the file is an object with the entry map, and the owner can open it
Recognizable == disk = "ok" /\ doc.exists /\ doc.kind \in {"full", "novars"}

\* the date of the last save is there and lastSave + ttl > now
VarsInForce(tt) ==
    doc.date[1] = "datestr" /\ ParseDate(doc.date) + TtlTicks(tt) > now

\* every entry of the file is in the owner's map with its value and, when the
\* file gives it one, its date
EntryMapRestored ==
    /\ DOMAIN func_cache'["A"] = DOMAIN doc.func
    /\ \A k \in DOMAIN doc.func :
          /\ func_cache'["A"][k].value = FromJson(doc.func[k].value)
          /\ doc.func[k].date[1] = "datestr"
                 => func_cache'["A"][k].date = ParseDate(doc.func[k].date)

\* C14 as the specification states it: the load of a file of recognizable
\* shape always restores the complete entry map, and restores the variables
\* if and only if the date of the last save is there and within the TTL.
C14Original ==
    [][\A tt \in FaultTtls :
          (Construct("A", FALSE, tt, EmptyMap) /\ Recognizable)
              => /\ EntryMapRestored
                 /\ attrs'["A"] = IF VarsInForce(tt)
                                    THEN [k \in DOMAIN doc.vars |-> FromJson(doc.vars[k])]
                                    ELSE EmptyMap]_vars

\* every date of the file that is there can be parsed, and the variables are
\* there if they are to be restored
WellFormed(tt) ==
    /\ doc.date # BadDateStr
    /\ \A k \in DOMAIN doc.func : doc.func[k].date # BadDateStr
    /\ VarsInForce(tt) => doc.kind = "full"

\* C14: the load of a file of recognizable shape whose dates can all be
\* parsed restores every entry, whatever its age and whether or not the
\* variables are restored; the variables are set on the owner if the date of
\* the last save is there and lastSave + ttl > now, and otherwise the load
\* sets no attribute.
C14LoadingSemantics ==
    [][\A tt \in FaultTtls :
          (Construct("A", FALSE, tt, EmptyMap) /\ Recognizable /\ WellFormed(tt))
              => /\ EntryMapRestored
                 /\ attrs'["A"] = IF VarsInForce(tt)
                                    THEN [k \in DOMAIN doc.vars |-> FromJson(doc.vars[k])]
                                    ELSE EmptyMap]_vars

\* an owner that has done nothing since its construction holds an entry of
\* the file that is older than its TTL, and no variable of the file, whose
\* last save is too old as well
C14Witness ==
    /\ alive["A"] /\ calls = 0 /\ disk = "ok"
    /\ doc.exists /\ doc.kind = "full" /\ doc.date[1] = "datestr"
    /\ doc.vars # EmptyMap /\ attrs["A"] = EmptyMap
    /\ ParseDate(doc.date) + TtlTicks(ttl["A"]) <= now
    /\ KeyGet \in DOMAIN func_cache["A"]
    /\ func_cache["A"][KeyGet].date >= 0
    /\ func_cache["A"][KeyGet].date + TtlTicks(ttl["A"]) <= now

\* C15: a file that is JSON but no object, or an object without the entry
\* map, is rejected by the load without an error: the construction ends, the
\* owner's entry map is empty and none of its attributes was set from the
\* file, which stays as it was.
C15UnrecognizableRejected ==
    [][\A tt \in FaultTtls :
          (/\ Construct("A", FALSE, tt, EmptyMap)
           /\ disk = "ok" /\ doc.exists /\ doc.kind \in {"array", "nofunc"})
              => /\ alive'["A"]
                 /\ func_cache'["A"] = EmptyMap
                 /\ attrs'["A"] = EmptyMap
                 /\ recent_save_data'["A"] = NoSnapshot
                 /\ doc' = doc]_vars

\* an owner constructed on an object that has variables within the TTL but no
\* entry map: it holds none of them
C15Witness ==
    /\ alive["A"] /\ calls = 0 /\ disk = "ok"
    /\ doc.exists /\ doc.kind = "nofunc" /\ doc.vars # EmptyMap
    /\ ParseDate(doc.date) + TtlTicks(ttl["A"]) > now
    /\ func_cache["A"] = EmptyMap /\ attrs["A"] = EmptyMap

\* the name of the call followed by the string forms of its positional
\* arguments after the owner and of its keyword arguments
CallString ==
    Name(cached_function.op) \o StrTuple(cached_function.inp.args)
        \o StrDict(cached_function.inp.kwargs)

HexChars == {"0", "1", "2", "3", "4", "5", "6", "7", "8", "9",
             "a", "b", "c", "d", "e", "f"}

\* C16: the key of a call is the string s of its name and arguments when s
\* has fewer than 180 characters; otherwise it is the first 149 characters
\* of s, an underscore and the digest of s, 40 hexadecimal characters.  So a
\* key has at most 190 characters, a key of the first kind fewer than 180
\* and a key of the second kind exactly 190: the two kinds never meet.
C16CanonicalKey ==
    [][ComputeKey
          => LET s == CallString
                 k == cached_function'.signature
             IN /\ Len(s) < 180 => k = s
                /\ Len(s) >= 180
                      => /\ Len(k) = 190
                         /\ SubSeq(k, 1, 149) = SubSeq(s, 1, 149)
                         /\ k[150] = "_"
                         /\ SubSeq(k, 151, 190) = function_hash(s)
                         /\ \A i \in 151..190 : k[i] \in HexChars
                /\ Len(k) <= 190
                /\ Len(s) < 180 <=> Len(k) < 180]_vars

\* the key of a call whose string has exactly 180 characters was computed:
\* it is of the second kind
C16Witness ==
    /\ cached_function.signature # NotComputed
    /\ Len(CallString) = 180
    /\ Len(cached_function.signature) = 190
    /\ cached_function.signature # CallString

\* the key as a function of the three strings alone
KeyOfStrings(name, args, kwargs) ==
    LET s == name \o args \o kwargs
    IN IF Len(s) < SignatureLimit THEN s
       ELSE SubSeq(s, 1, SignatureKeep) \o <<"_">> \o function_hash(s)

\* C17: the key computed for a call is a function of the name of the
\* operation, of the string form of the positional arguments after the owner
\* and of the string form of the keyword arguments: whatever the owner the
\* call is made on, its entries, its attributes and the time, the key is that
\* function of the three strings; and computing it changes nothing of the
\* owners, of the file or of the wrappers.
C17FingerprintDeterminism ==
    [][ComputeKey
          => /\ cached_function'.signature =
                    KeyOfStrings(Name(cached_function.op),
                                 StrTuple(cached_function.inp.args),
                                 StrDict(cached_function.inp.kwargs))
             /\ UNCHANGED <<doc, alive, ttl, func_cache, attrs, recent_save_data,
                            run_function_signatures, task, now>>]_vars

\* a key was computed on the second owner, later than the start, while that
\* owner held an entry loaded from the file
C17Witness ==
    /\ cached_function.signature # NotComputed
    /\ cached_function.owner = "B"
    /\ now > 0
    /\ func_cache["B"] # EmptyMap
    /\ cached_function.signature \notin DOMAIN func_cache["B"]

\* C18: a call that finds a dated entry it may use is answered from it if and
\* only if date + TTL > now, where the TTL is the one given to the wrapper
\* and, when none was given, the ttl of the owner the call is made on; a
\* number counts days, a timedelta is taken as it is.
C18EffectiveTtl ==
    [][\A op \in Ops :
          LET k == function_signature(op, IntOne)
              used == IF WrapperTtl(op) # NoTtl THEN WrapperTtl(op) ELSE ttl["A"]
              ticks == IF used[1] = "days" THEN used[2] * DayTicks ELSE used[2]
          IN (/\ Call("A", op, IntOne)
              /\ k \in DOMAIN func_cache["A"]
              /\ func_cache["A"][k].date >= 0
              /\ ClearFlag(op) => k \in run_function_signatures[op])
                 => /\ Answered <=> func_cache["A"][k].date + ticks > now
                    /\ Invoked <=> func_cache["A"][k].date + ticks <= now]_vars

\* a call of get, which was given no TTL, on an owner whose ttl is the number
\* 1 was answered from an entry older than the timedelta of one tick
C18Witness ==
    /\ last.kind = "hit" /\ last.op = "get" /\ last.owner = "A"
    /\ ttl["A"] = Days(1)
    /\ KeyGet \in DOMAIN func_cache["A"]
    /\ func_cache["A"][KeyGet].date >= 0
    /\ func_cache["A"][KeyGet].date + 1 <= now

\* the names of the model's attributes that begin with an underscore
UnderscoreNames == {"_excluded_cache_vars"}

\* C19: the variables of every file that a save writes are exactly the
\* owner's attributes that are public (no underscore at the front), not
\* named in the excluded list and JSON-serializable; so neither the excluded
\* list itself nor an attribute it names is among them.
C19SnapshotFilter ==
    [][\A o \in Owners :
          (Save(o) /\ doc' # doc)
              => DOMAIN doc'.vars =
                     {k \in DOMAIN attrs[o] :
                         /\ k \notin UnderscoreNames
                         /\ k \notin excluded(attrs[o])
                         /\ is_jsonable(attrs[o][k])}]_vars

\* json.dumps can encode the value
Encodable(x) == x[1] \notin {"set", "cyclic"}

\* the file after the step holds every entry of cache and every attribute of
\* owner A that can be encoded, and no other
WrittenWithout(cache) ==
    /\ doc'.exists
    /\ DOMAIN doc'.func = {k \in DOMAIN cache : Encodable(cache[k].value)}
    /\ DOMAIN doc'.vars = {k \in DOMAIN attrs["A"] : Encodable(attrs["A"][k])}

\* C20: a result or an attribute that cannot be JSON-encoded is left out of
\* the file and nothing else is: every save, that of a returning call and
\* json_cache_save(), writes all the other entries and attributes; and a call
\* whose entry cannot be encoded is answered from memory within the TTL.
C20SerializationLocal ==
    [][/\ \A t \in Tasks : \A v \in Outcomes(task[t].op, task[t].inp) :
             Return(t, v) => WrittenWithout(func_cache'["A"])
       /\ Save("A") => WrittenWithout(func_cache["A"])
       /\ \A inp \in {SetInput, CyclicInput} :
             LET k == function_signature("get", inp)
             IN (/\ Call("A", "get", inp)
                 /\ k \in DOMAIN func_cache["A"]
                 /\ func_cache["A"][k].date + TtlTicks(ttl["A"]) > now)
                    => Answered /\ last'.value = func_cache["A"][k].value]_vars

\* the stored keys that start with name
KeysStartingWith(name) ==
    {k \in DOMAIN func_cache["A"] :
        Len(name) <= Len(k) /\ \A i \in 1..Len(name) : k[i] = name[i]}

EntriesOf(op) ==
    {function_signature(op, inp) : inp \in ClearInputs(op)}
        \cap DOMAIN func_cache["A"]

\* C22: json_cache_clear(f), f the name of a wrapped operation, removes every
\* entry of f and no entry of a wrapped operation with another name.
C22ClearSpecific ==
    [][\A f \in Ops :
          Clear("A", FALSE, Name(f))
              => /\ EntriesOf(f) \cap DOMAIN func_cache'["A"] = {}
                 /\ \A g \in Ops \ {f} :
                       /\ EntriesOf(g) \subseteq DOMAIN func_cache'["A"]
                       /\ \A k \in EntriesOf(g) :
                             func_cache'["A"][k] = func_cache["A"][k]]_vars

\* the stored keys whose part before the first "(" is n
KeysNamed(n) ==
    {k \in DOMAIN func_cache["A"] :
        \E i \in 1..Len(k) : /\ k[i] = "("
                             /\ \A j \in 1..(i - 1) : k[j] # "("
                             /\ SubSeq(k, 1, i - 1) = n}

RECURSIVE SumOf(_, _)
SumOf(f, S) ==
    IF S = {} THEN 0
    ELSE LET n == CHOOSE x \in S : TRUE IN f[n] + SumOf(f, S \ {n})

\* C23: json_cache_stats() returns the number of stored keys as total_entries
\* and, per operation name (the part of the key before the first "("), the
\* number of keys with that name; the counts add up to the total, each
\* wrapped operation is counted with its own entries, and nothing changes.
C23Stats ==
    [][Stats("A")
          => /\ stats'.total_entries = Cardinality(DOMAIN func_cache["A"])
             /\ \A n \in DOMAIN stats'.functions :
                   stats'.functions[n] = Cardinality(KeysNamed(n))
                       /\ KeysNamed(n) # {}
             /\ \A op \in Ops :
                   EntriesOf(op) # {}
                       => /\ Name(op) \in DOMAIN stats'.functions
                          /\ stats'.functions[Name(op)]
                                = Cardinality(EntriesOf(op))
             /\ SumOf(stats'.functions, DOMAIN stats'.functions)
                   = stats'.total_entries
             /\ UNCHANGED <<now, doc, alive, created, ttl, func_cache, attrs,
                            recent_save_data, run_function_signatures, task,
                            calls, last, first, failed, computed, batch, disk,
                            cached_function>>]_vars

\* the statistics of an owner with two entries of get and one of get_all
C23Witness ==
    /\ stats.total_entries = 3
    /\ DOMAIN stats.functions = {Name("get"), Name("get_all")}
    /\ stats.functions[Name("get")] = 2

\* C24: no step but json_cache_clear removes a key of the entry map: a hit,
\* a miss, a failed call, the passing of the TTL, a save and a load leave
\* every entry there with its value and its date, except that the return of
\* a recomputation of the same key replaces the entry.
C24EntryLifecycle ==
    [][\A k \in DOMAIN func_cache["A"] :
          /\ k \in DOMAIN func_cache'["A"]
          /\ func_cache'["A"][k] # func_cache["A"][k]
                => \E t \in Tasks :
                      /\ Running(t) /\ task[t].owner = "A"
                      /\ call_signature("A", task[t].op, task[t].inp) = k
                      /\ \E v \in Outcomes(task[t].op, task[t].inp) \ {Raised} :
                            Return(t, v)]_vars

\* a call of get has raised after the TTL of its entry had passed, and the
\* entry is still there
C24Witness ==
    /\ last.kind = "raise" /\ last.op = "get"
    /\ KeyGet \in DOMAIN func_cache["A"]
    /\ func_cache["A"][KeyGet].date + TtlTicks(ttl["A"]) <= now

\* C25: an owner constructed with clear_cache loads nothing, whatever file
\* there is: its entry map is empty, no attribute is restored and the file
\* is left alone; and a call whose key is not in the entry map invokes the
\* operation, so that the first call of each key on such an owner is a miss.
C25ClearOnInit ==
    [][/\ \A tt \in OwnerTtls \cup FaultTtls :
             Construct("A", TRUE, tt, EmptyMap)
                 => /\ func_cache'["A"] = EmptyMap
                    /\ attrs'["A"] = EmptyMap
                    /\ recent_save_data'["A"] = NoSnapshot
                    /\ doc' = doc
       /\ \A op \in Ops :
             (/\ Call("A", op, IntOne)
              /\ function_signature(op, IntOne) \notin DOMAIN func_cache["A"])
                 => Invoked]_vars

\* the file holds an entry of get within its TTL and an attribute; the owner
\* constructed over it has an empty entry map and no attribute, and its
\* first call of get has been passed on to the operation
C25Witness ==
    /\ doc.exists /\ "counter" \in DOMAIN doc.vars
    /\ KeyGet \in DOMAIN doc.func
    /\ alive["A"]
    /\ func_cache["A"] = EmptyMap /\ attrs["A"] = EmptyMap
    /\ \E t \in Tasks : Running(t) /\ task[t].op = "get"

\* the directory of owner o with the separator the path has after it
DirPrefix(o) ==
    LET dir == cache_file[o].directory
    IN IF dir = <<>> \/ dir[Len(dir)] = "/" THEN dir ELSE dir \o <<"/">>

\* the path read last is the directory, the given name and ".json"
PathHasName(o, name) ==
    cache_file'[o].path = DirPrefix(o) \o name \o <<".", "j", "s", "o", "n">>

\* the id of 180 characters or more, cut and followed by the digest
CutId(id) == SubSeq(id, 1, 140) \o <<"-">> \o sha256_hexdigest(id)

PathLimit == 260

\* what an owner constructed over the file of owner A restores of A's map
LoadsWhatASaved(o) ==
    /\ DOMAIN func_cache'[o] = DOMAIN func_cache["A"]
    /\ \A k \in DOMAIN func_cache["A"] :
          func_cache'[o][k].value = func_cache["A"][k].value

\* C26 as stated: the file name is the id itself when the id is shorter than
\* 180 characters, and its first 140 characters, "-" and the SHA-256 digest
\* of the id otherwise; a 200-character id gives a path under 260
\* characters; an owner with the data_id of an earlier one loads what that
\* one saved.
C26Original ==
    [][/\ \A o \in Owners :
             ResolvePath(o)
                 => LET id == cache_file[o].data_id
                    IN /\ Len(id) < 180 => PathHasName(o, id)
                       /\ Len(id) >= 180 => PathHasName(o, CutId(id))
                       /\ Len(id) = LongIdLen => Len(cache_file'[o].path) < PathLimit
       /\ (ConstructAt("B") /\ cache_file["B"] = cache_file["A"])
             => LoadsWhatASaved("B")]_vars

\* the id is made of lower-case letters and digits only
PlainId(id) == \A i \in 1..Len(id) : id[i] \in LowerLetters \cup Digits

\* C26: the file name is slugify applied to the id when the id is shorter
\* than 180 characters, and to its first 140 characters, "-" and the
\* SHA-256 digest of the id otherwise; for an id of lower-case letters and
\* digits that is the id, or the cut id, itself, and "My_id" and "my id"
\* both give "my-id"; a 200-character id of such
\* characters gives a path under 260 characters in the directories of the
\* model; owners with one data_id and directory get one path, and the later
\* one loads what the earlier one saved.
C26FileName ==
    [][/\ \A o \in Owners :
             ResolvePath(o)
                 => LET id == cache_file[o].data_id
                        name == IF Len(id) < 180 THEN id ELSE CutId(id)
                    IN /\ PathHasName(o, slugify(name))
                       /\ PlainId(id) => PathHasName(o, name)
                       /\ id \in {<<"M", "y", "_", "i", "d">>,
                                  <<"m", "y", " ", "i", "d">>}
                             => PathHasName(o, <<"m", "y", "-", "i", "d">>)
                       /\ (PlainId(id) /\ Len(id) = LongIdLen)
                             => Len(cache_file'[o].path) < PathLimit
                       /\ \A u \in Owners \ {o} :
                             (/\ cache_file[u].data_id = id
                              /\ cache_file[u].directory = cache_file[o].directory
                              /\ cache_file[u].path # NoPath)
                                 => cache_file'[o].path = cache_file[u].path
       /\ (ConstructAt("B") /\ cache_file["B"] = cache_file["A"])
             => LoadsWhatASaved("B")]_vars

\* two owners with one id of 200 characters have read their paths, and the
\* second has loaded the entry of get that the first saved
C26Witness ==
    /\ cache_file["A"].data_id = IdOfLen(LongIdLen, 1)
    /\ cache_file["B"].data_id = cache_file["A"].data_id
    /\ cache_file["A"].path # NoPath
    /\ cache_file["B"].path = cache_file["A"].path
    /\ KeyGet \in DOMAIN func_cache["B"]

\* the coroutine t is inside one of the two sequences of statements: after
\* the fingerprint and before the decision, or after the entry write and
\* before the return
InSequence(t) == task[t].pc \in {"entered", "stored", "saved", "appended"}

\* C27: the wrapper suspends only while the wrapped operation is awaited:
\* while a coroutine is between fingerprint and freshness check, or between
\* the entry write and the status update, no other coroutine takes a step,
\* and whatever changes in the entry map, the file, the keys run, the
\* attributes or the call that ended last is its own doing.
C27NoSuspension ==
    [][\A t \in Tasks :
          InSequence(t)
              => /\ \A u \in Tasks \ {t} : task'[u] = task[u]
                 /\ <<func_cache, doc, run_function_signatures, attrs, last, calls>>'
                        # <<func_cache, doc, run_function_signatures, attrs, last, calls>>
                       => task'[t] # task[t]]_vars

\* one coroutine has written its entry and saved while the other is
\* suspended in the operation
C27Witness ==
    \E t, u \in Tasks :
        /\ task[t].pc = "saved" /\ task[u].pc = "running"
        /\ store_key(t) \in DOMAIN func_cache["A"]

\* the attributes without the two status fields
WithoutStatus(at) ==
    Restrict(at, DOMAIN at \ {"cache_status", "last_cache_status"})

\* the status fields of owner A say status for key, and what cache_status
\* says of the other keys is as before the step
StatusRecorded(key, status) ==
    /\ {"cache_status", "last_cache_status"} \subseteq DOMAIN attrs'["A"]
    /\ attrs'["A"]["last_cache_status"] = PyStr(status)
    /\ LET old == attrs["A"]["cache_status"][2]
           new == attrs'["A"]["cache_status"][2]
       IN /\ DOMAIN new = DOMAIN old \cup {key}
          /\ new[key] = status
          /\ \A k \in DOMAIN old \ {key} : new[k] = old[k]

\* a call of op is answered from the map: the test of the wrapper, which
\* reads the entry, the clock, the TTL and the keys run, and no attribute
StoredAndFresh(op) ==
    LET k == function_signature(op, IntOne)
    IN /\ ClearFlag(op) => k \in run_function_signatures[op]
       /\ k \in DOMAIN func_cache["A"]
       /\ func_cache["A"][k].date + EffectiveTtl(op, "A") > now

\* C28: on an owner with a status map, a call that returns records under its
\* key and as last status "hit" when it was answered from the map and
\* "miss" when the operation was invoked; on an owner without one nothing is
\* recorded; and with the map or without it a call is answered or passed on,
\* returns and changes the entry map by the same rule, in which no
\* attribute occurs, and changes no attribute but the two status fields.
C28StatusObservational ==
    [][/\ \A op \in Ops :
             Call("A", op, IntOne)
                 => LET k == function_signature(op, IntOne)
                    IN /\ Answered <=> StoredAndFresh(op)
                       /\ Invoked <=> ~StoredAndFresh(op)
                       /\ Answered => last'.value = func_cache["A"][k].value
                       /\ func_cache' = func_cache
                       /\ WithoutStatus(attrs'["A"]) = WithoutStatus(attrs["A"])
                       /\ IF Answered /\ "cache_status" \in DOMAIN attrs["A"]
                          THEN StatusRecorded(k, StatusHit)
                          ELSE attrs' = attrs
       /\ \A t \in Tasks : \A v \in Outcomes(task[t].op, task[t].inp) :
             Return(t, v)
                 => LET k == function_signature(task[t].op, task[t].inp)
                    IN /\ last'.kind = "miss" /\ last'.value = v
                       /\ func_cache'["A"]
                             = Put(func_cache["A"], k, [value |-> v, date |-> now])
                       /\ WithoutStatus(attrs'["A"]) = WithoutStatus(attrs["A"])
                       /\ IF "cache_status" \in DOMAIN attrs["A"]
                          THEN StatusRecorded(k, StatusMiss)
                          ELSE attrs' = attrs
       /\ \A t \in Tasks : Raise(t) => attrs' = attrs /\ func_cache' = func_cache]_vars

\* the status map says "hit" for get and "miss" for get_all, and the call
\* that ended last was a hit
C28Witness ==
    /\ "cache_status" \in DOMAIN attrs["A"]
    /\ DOMAIN attrs["A"]["cache_status"][2] = {KeyGet, KeyGetAll}
    /\ attrs["A"]["cache_status"][2][KeyGet] = StatusHit
    /\ attrs["A"]["cache_status"][2][KeyGetAll] = StatusMiss
    /\ attrs["A"]["last_cache_status"] = PyStr(StatusHit)
    /\ last.kind = "hit"

\* the ways to write the call whose entries are stored for owner A
StoredWays == {inp \in KwInputs :
                  call_signature("A", "get", inp) \in DOMAIN func_cache["A"]}

\* C29: the order of the keyword arguments, and the way a parameter is passed
\* (by position, by keyword or by default), are part of the key: the five
\* ways to write one call of get have five keys; a call written in a way that
\* has no entry yet invokes the operation, whatever entries the other ways
\* have; and the value it returns is stored under its own key beside the
\* entries of the other ways, which stay as they were.
C29KwargOrder ==
    [][/\ \A inp \in KwInputs :
            Call("A", "get", inp) =>
                /\ \A other \in KwInputs \ {inp} :
                       call_signature("A", "get", inp)
                           # call_signature("A", "get", other)
                /\ inp \notin StoredWays => Invoked
        /\ \A t \in Tasks : \A v \in Outcomes(task[t].op, task[t].inp) :
               Return(t, v) /\ task[t].inp \in KwInputs =>
                   /\ StoredWays' = StoredWays \cup {task[t].inp}
                   /\ \A other \in StoredWays \ {task[t].inp} :
                          func_cache'["A"][call_signature("A", "get", other)]
                              = func_cache["A"][call_signature("A", "get", other)]
      ]_vars

\* both orders of the keyword arguments, and a third way to write the call,
\* have an entry each
C29Witness ==
    /\ {OrderYZ, OrderZY} \subseteq StoredWays
    /\ Cardinality(StoredWays) = 3
    /\ Cardinality(DOMAIN func_cache["A"]) = 3

\* the snapshot that json_cache_save builds in the step, as a document
SavedDoc(o) == DumpDoc(json_cache_data(func_cache'[o], attrs[o], now))

\* the step runs json_cache_save on owner o: called by the program, or by the
\* wrapper after it has stored the value of a call
SaveRuns(o) ==
    \/ Save(o)
    \/ \E t \in Tasks : \E v \in Outcomes(task[t].op, task[t].inp) :
           task[t].owner = o /\ Return(t, v)

\* the packed bytes of the document still exceed the size of a remote item
Oversized(d) ==
    SerializedSize(d) > DynamodbCompressThreshold
        /\ CompressedSize(d) > DynamodbMaxSize

\* the step put the document d into the remote table
PutOf(d) == remote'.puts # remote.puts /\ load_from_dynamodb(remote'.item) = d

PutItem(compressed, data) ==
    /\ remote'.puts # remote.puts
    /\ remote'.item.exists
    /\ remote'.item.compressed = compressed
    /\ remote'.item.data = data

\* C31: when json_cache_save runs on an owner with an enabled remote store,
\* a snapshot of at most 100,000 serialized bytes is put as it is; a larger
\* one is put in the compressed envelope (gzip, then base64), from which the
\* snapshot is read back; and when the compressed bytes still exceed 400,000
\* the save puts nothing.  The local file is written in each case.
C31WriteBySize ==
    [][\A o \in Owners : SaveRuns(o) /\ dynamodb[o].enabled =>
          LET d == SavedDoc(o)
          IN /\ doc' = d
             /\ IF SerializedSize(d) <= 100000
                THEN PutItem(FALSE, json_dumps(d))
                ELSE IF CompressedSize(d) <= 400000
                THEN /\ PutItem(TRUE, b64encode(gzip_compress(json_dumps(d))))
                     /\ load_from_dynamodb(remote'.item) = d
                ELSE remote' = remote
      ]_vars

\* the table holds a compressed item, and the owner has then saved data of
\* more bytes than an item takes: the file has them, the table has not
C31Witness ==
    /\ dynamodb["A"].enabled
    /\ remote.item.exists /\ remote.item.compressed
    /\ doc.exists /\ "data" \in DOMAIN doc.vars
    /\ doc.vars["data"] = ToJson(OversizedData)
    /\ load_from_dynamodb(remote.item) # doc

\* the step constructs owner o
Constructed(o) == ~alive[o] /\ alive'[o]

\* the document of the remote item after the step
RemoteDoc == load_from_dynamodb(remote'.item)

\* C32: an owner constructed without clear_cache and with an enabled store
\* tries the local file first: the store is read only when the file is not
\* found, and a file that is found is what the owner loads.  After the load
\* of the local file the owner's snapshot is put into the store, so that the
\* store and the file both hold the entries and the variables that were
\* loaded.  The construction of an owner without a table neither reads nor
\* writes the store.
C32TierConvergence ==
    [][\A o \in Owners : Constructed(o) =>
          /\ dynamodb'[o].enabled =>
                /\ remote'.gets # remote.gets => ~doc.exists
                /\ doc.exists =>
                      /\ func_cache'[o] = load_function_cache(doc)
                      /\ remote'.puts # remote.puts
                      /\ RemoteDoc = DumpDoc(json_cache_data(func_cache'[o],
                                                              attrs'[o], now))
                      /\ RemoteDoc.func = doc.func
                      /\ \A k \in DOMAIN attrs'[o] :
                             /\ k \in DOMAIN doc.vars
                             /\ RemoteDoc.vars[k] = doc.vars[k]
          /\ ~dynamodb'[o].table => remote' = remote
      ]_vars

\* an owner with an enabled store has loaded an entry and a variable from the
\* local file, no call has ended in its process, and the store, which was
\* never read, holds both
C32Witness ==
    /\ dynamodb["A"].enabled /\ last = NoCall
    /\ remote.gets = 0 /\ remote.puts = 1 /\ remote.item.exists
    /\ KeyGet \in DOMAIN func_cache["A"]
    /\ "data" \in DOMAIN attrs["A"]
    /\ load_from_dynamodb(remote.item).func = doc.func
    /\ load_from_dynamodb(remote.item).vars = doc.vars

\* C33: the keys that have been run are kept per owner: the first call of a
\* key that an owner makes in a process to a wrapper with the clear flag
\* invokes the operation, whatever the owner has stored and whatever other
\* owners have computed in the process.
C33PerOwner ==
    [][\A o \in Owners, op \in Ops :
          LET k == call_signature(o, op, IntOne)
          IN (Call(o, op, IntOne) /\ ClearFlag(op) /\ k \notin DOMAIN first[o])
                 => Invoked]_vars

\* the snapshot of owner o as it is before the step, as a document
Snapshot(o) == DumpDoc(json_cache_data(func_cache[o], attrs[o], now))

\* C34: a save that writes the document replaces it as a whole with the
\* snapshot of the owner that saves: after the step the document holds the
\* serializable entries of that owner and no entry that only the document or
\* another owner held.  This holds for the save the wrapper runs after a
\* computed call and for the saves at the exit of the process, where the
\* document is the snapshot of the owner whose save wrote last; no other
\* step writes the document.
C34LastWriterWins ==
    [][/\ \A o \in Owners : SaveRuns(o) => (doc' # doc => doc' = SavedDoc(o))
       /\ Exit => (doc' # doc => \E o \in Owners : alive[o] /\ doc' = Snapshot(o))
       /\ doc' # doc => Exit \/ \E o \in Owners : SaveRuns(o)
      ]_vars

\* both owners are alive and each has computed a call the other has not: the
\* document holds the entry of B, which saved last, and has lost the entry
\* that A wrote before
C34Witness ==
    /\ alive["A"] /\ alive["B"]
    /\ doc.exists /\ doc.kind = "full"
    /\ DOMAIN doc.func = DOMAIN func_cache["B"]
    /\ DOMAIN func_cache["A"] # {}
    /\ DOMAIN func_cache["A"] \cap DOMAIN func_cache["B"] = {}
    /\ last.kind = "miss" /\ last.owner = "B"

\* the entries and the attributes that json_cache_save would write for owner
\* o are those of the snapshot recorded when o loaded the file
Unchanged(o) ==
    LET data == json_cache_data(func_cache[o], attrs[o], now)
    IN /\ recent_save_data[o] # NoSnapshot
       /\ data.func = recent_save_data[o].func
       /\ data.vars = recent_save_data[o].vars

\* C35: json_cache_save on an owner that loaded the file writes nothing when
\* the owner's entries and attributes are those of the snapshot recorded at
\* the load, and writes the file when an entry or an attribute has changed
\* since.
C35SkipUnchanged ==
    [][\A o \in Owners :
          (Save(o) /\ recent_save_data[o] # NoSnapshot) =>
              IF Unchanged(o) THEN doc' = doc ELSE doc' = Snapshot(o)
      ]_vars

\* the wrapper's test succeeds for the call: the step returns a stored value
ReturnsStored(o, op, inp) ==
    LET k == call_signature(o, op, inp)
    IN \/ Call(o, op, inp) /\ ~hit_test_raises(o, op, k) /\ IsHit(o, op, k)
       \/ \E t \in Tasks :
              /\ task[t].owner = o /\ task[t].op = op /\ task[t].inp = inp
              /\ Lookup(t) /\ ~hit_test_raises(o, op, k) /\ IsHit(o, op, k)

\* C36: a call that returns a stored value returns the value of the entry
\* and has no effect on the state of the cache: no operation is invoked, the
\* entry maps of all owners are as they were (the entry keeps its date), the
\* file and the remote item are not written, and the keys computed in this
\* process are as they were.
C36HitNoEffect ==
    [][\A o \in Owners, op \in Ops : \A inp \in InputsOf(op) :
          ReturnsStored(o, op, inp) =>
              LET k == call_signature(o, op, inp)
              IN /\ last'.kind = "hit" /\ last'.value = func_cache[o][k].value
                 /\ \A t \in Tasks : Running(t)' <=> Running(t)
                 /\ func_cache' = func_cache
                 /\ doc' = doc /\ remote' = remote
                 /\ recent_save_data' = recent_save_data
                 /\ run_function_signatures' = run_function_signatures
      ]_vars

\* an owner has returned, after the clock moved, the value of an entry that
\* it loaded from the file: the entry has the date it was stored with, and
\* its key is not among the keys computed in this process
C36Witness ==
    /\ last.kind = "hit"
    /\ alive[last.owner]
    /\ LET k == call_signature(last.owner, last.op, last.inp)
       IN /\ k \in DOMAIN func_cache[last.owner]
          /\ func_cache[last.owner][k].date < now
          /\ k \notin run_function_signatures[last.op]
          /\ doc.exists /\ doc.func[k].date = FormatDate(func_cache[last.owner][k].date)

\* the processing of the document d fails partway: one of the two loaders
\* raises (the date of the last save or the date of an entry is no date, or
\* the variables are to be set and the document has none)
LoadFails(d, tt) ==
    \/ load_variables_raises(d, tt, now)
    \/ \E k \in DOMAIN d.func : d.func[k].date = BadDateStr

\* C37: when the processing of a recognizable document fails partway, the
\* owner is constructed with an empty entry map and without any attribute of
\* the document.
C37NoPartialLoad ==
    [][\A tt \in FaultTtls :
          (/\ Construct("A", FALSE, tt, EmptyMap)
           /\ load_reads(doc) /\ LoadFails(doc, tt))
              => func_cache'["A"] = EmptyMap /\ attrs'["A"] = EmptyMap
      ]_vars

\* the step in which the operation of the call in flight t returns: the
\* wrapper builds the entry and assigns it
Completes(t) ==
    \E v \in Outcomes(task[t].op, task[t].inp) : Return(t, v) \/ Store(t, v)

\* C38: the date of an entry is the time at which its computation completed
\* and not the time at which the call was made: in the step in which the
\* operation returns, the entry is stored with the clock of that step; an
\* entry of the key that an identical call stored meanwhile has an earlier or
\* equal date, so the entry that survives carries the latest one; and no
\* entry computed in this process is dated after the clock.
C38CompletionTime ==
    [][/\ \A t \in Tasks : Completes(t) =>
             LET o == task[t].owner
                 k == store_key(t)
             IN /\ func_cache'[o][k].date = now
                /\ (k \in DOMAIN func_cache[o] /\ func_cache[o][k].date >= 0)
                       => func_cache[o][k].date <= func_cache'[o][k].date
       /\ \A o \in Owners : \A k \in DOMAIN func_cache'[o] :
             (\E op \in Ops : k \in computed'[op])
                 => func_cache'[o][k].date <= now'
      ]_vars

\* two identical calls were in flight together; the first returned, the clock
\* moved, and the second has now returned: the entry carries the date of the
\* second return, later than the date of the first
C38Witness ==
    /\ last.kind = "miss" /\ last.twin
    /\ LET k == call_signature(last.owner, last.op, last.inp)
       IN /\ k \in DOMAIN func_cache[last.owner]
          /\ k \in DOMAIN first[last.owner]
          /\ func_cache[last.owner][k].date = now
          /\ first[last.owner][k].date < now

\* The call in flight t was invoked before a clear that has returned: an
\* identical call stored its entry while t was in flight, which made it the
\* first of its key to end well, and it is no longer so, which only a clear
\* of the owner undoes.
ClearedInFlight(t) ==
    /\ Running(t) /\ task[t].stored
    /\ store_key(t) \notin DOMAIN first[task[t].owner]

\* C39 as stated: once json_cache_clear() has returned, the entry map holds
\* no entry produced by an invocation that started before the clear: when
\* the operation of such a call returns, the map is left without its entry.
C39ClearWins ==
    [][\A t \in Tasks :
          (Completes(t) /\ ClearedInFlight(t))
              => store_key(t) \notin DOMAIN func_cache'[task[t].owner]
      ]_vars

\* C39: json_cache_clear() leaves the entry map empty, so no entry stored
\* before the clear remains, and it leaves the calls in flight as they are;
\* a call stores its entry when its operation returns, whether it was invoked
\* before or after the clear, so the map can then hold an entry of an
\* invocation that started before the clear; and only a returning call adds
\* an entry to the map.
C39ClearThenStore ==
    [][/\ Clear("A", TRUE, <<>>) =>
             func_cache'["A"] = EmptyMap /\ task' = task
       /\ \A t \in Tasks : \A v \in Outcomes(task[t].op, task[t].inp) :
             Return(t, v) =>
                 func_cache'[task[t].owner][store_key(t)] = [value |-> v, date |-> now]
       /\ \A k \in DOMAIN func_cache'["A"] \ DOMAIN func_cache["A"] :
             \E t \in Tasks : Completes(t) /\ store_key(t) = k
      ]_vars

\* a call that was in flight during a clear has returned: an identical call
\* had stored its entry meanwhile, yet this call is the first of its key to
\* end well since the clear, and the map holds its entry
C39Witness ==
    /\ last.kind = "miss" /\ last.twin
    /\ LET k == call_signature(last.owner, last.op, last.inp)
       IN /\ k \in DOMAIN first[last.owner]
          /\ ~first[last.owner][k].over
          /\ k \in DOMAIN func_cache[last.owner]
          /\ func_cache[last.owner][k].value = last.value

\* C40: no call waits on another: with the coroutines scheduled fairly and
\* every operation returning or raising in the end, every call that was
\* started returns or raises in the end, whatever other calls are in flight
\* on the owner or on its key; no calls are left waiting for each other.
C40NoCallWaits ==
    \A t \in Tasks : (task[t].pc # "idle") ~> (task[t].pc = "idle")

\* two identical calls are in flight: one has stored its entry and is about
\* to save, the other still awaits its operation
C40Witness ==
    \E t \in Tasks : \E u \in Tasks \ {t} :
        /\ task[t].pc = "stored" /\ task[u].pc = "running"
        /\ task[t].owner = task[u].owner /\ task[t].op = task[u].op
        /\ task[t].inp = task[u].inp

====
